---- MODULE Spec2Model ----
(***************************************************************************)
(* Birli: the visibility cube builder (context_to_jones_array, lib.rs) and *)
(* the cable-length correction (correct_cable_lengths, corrections.rs).    *)
(*                                                                         *)
(* Floats are modelled as integers: the builder only copies them, and the  *)
(* correction is modelled on lengths and frequencies whose rotation angle  *)
(* is a whole number of quarter turns, where sin and cos are exact.        *)
(* Indices are 0-based as in the source; sequences are 1-based, so the     *)
(* float at offset i of a buffer is buf[i + 1].                            *)
(***************************************************************************)
EXTENDS Integers, Sequences, FiniteSets, TLC

\* ------------------------------------------------------------------------
\* Bounds of the observation the provider (mwalib CorrelatorContext) serves
\* ------------------------------------------------------------------------
MaxTimesteps == 2
MaxCoarseChans == 2
MaxFineChans == 2
MaxAnts == 2
\* The number of reads the provider fails during one call
MaxFailures == 2

\* metafits_context.num_visibility_pols: XX, XY, YX, YY
num_visibility_pols == 4

num_corr_fine_chans_per_coarse == MaxFineChans
num_ants == MaxAnts

\* metafits_context.baselines: (0,0), (0,1), ..., (1,1), ... in mwalib order
RECURSIVE BaselinesFrom(_, _)
BaselinesFrom(a1, a2) ==
    IF a1 >= num_ants THEN <<>>
    ELSE IF a2 >= num_ants THEN BaselinesFrom(a1 + 1, a1 + 1)
    ELSE <<[ant1_index |-> a1, ant2_index |-> a2]>> \o BaselinesFrom(a1, a2 + 1)

baselines == BaselinesFrom(0, 0)
\* metafits_context.num_baselines: the autocorrelations included
metafits_num_baselines == (num_ants * (num_ants + 1)) \div 2

floats_per_chan == num_visibility_pols * 2
floats_per_baseline == floats_per_chan * num_corr_fine_chans_per_coarse

\* The float the correlator recorded for (timestep, coarse channel, baseline,
\* fine channel, component): every one is distinct and none is zero.
VisFloat(ts, cc, bl, fc, p) ==
    1 + p + floats_per_chan
              * (fc + num_corr_fine_chans_per_coarse
                        * (bl + metafits_num_baselines * (cc + MaxCoarseChans * ts)))

\* The float at offset i of an HDU, in the provider's order
\* [baseline][chan][pol][complex].
HduFloat(ts, cc, i) ==
    VisFloat(ts, cc,
             i \div floats_per_baseline,
             (i % floats_per_baseline) \div floats_per_chan,
             i % floats_per_chan)

\* ------------------------------------------------------------------------
\* State
\* ------------------------------------------------------------------------
VARIABLES
    mwalib_timestep_range,      \* [start, end), argument
    mwalib_coarse_chan_range,   \* [start, end), argument
    mwalib_baseline_indices,    \* argument
    failing,                    \* the HDUs (ts, cc) whose read has failed
    jones_array,                \* (t, chan, baseline) -> Jones, 8 floats
    flag_array,                 \* (t, chan, baseline) -> BOOLEAN
    rx_error,                   \* the unbounded error channel, in flight
    tx_error_dropped,           \* the send side has been dropped
    main_pc,                    \* the calling thread
    result,                     \* what the call returned
    worker_ts,                  \* per coarse channel task of the par_iter:
                                \* the timesteps it has processed
    hdu_buffer,                 \* per task: its scratch buffer
    collector_pc,               \* the thread draining rx_error
    progress_pc,                \* the thread drawing the progress bars
    read_log,                   \* (ts, cc) -> number of read attempts
    jones_writer,               \* cell -> the tasks that wrote it, in order
    jones_orig,                 \* the cube before a correction
    antennas,                   \* electrical lengths of each rfinput
    corr_pc,                    \* the correction call
    corr_done,                  \* slices the running correction has processed
    corr_calls,                 \* how often each correction was called
    cable_delays_applied,       \* metafits: cable delays already applied
    geometric_delays_applied,   \* metafits: GeometricDelaysApplied
    no_cable_delay,             \* --no-cable-delay is present
    no_geometric_delay,         \* --no-geometric-delay is present
    prep_ctx,                   \* the corrections main has enabled
    img_visibility_pols,        \* metafits: num_visibility_pols, imgsets loader
    img_coarse_chan_idxs,       \* argument
    img_timestep_idxs,          \* argument
    masks_given,                \* baseline_flagmasks is Some
    img_failing,                \* the (img chan, img timestep) whose read failed
    img_read_log,               \* per img chan, the img timesteps read so far, in order
    img_pc,                     \* the thread calling the imgsets loader
    job_queue,                  \* rx_img_coarse_chan_idx
    producer,                   \* per producer thread: pc, chan, timestep, queue
    pol_img_queues,             \* per component: the bounded queue, in flight
    img_rx_error,               \* the unbounded error queue, in flight
    consumer_pc,                \* per component: its consumer thread
    img_collector_pc,           \* the thread draining img_rx_error
    img_progress_pc,            \* the thread drawing the progress bars
    baseline_imgsets,           \* (baseline, component) -> image buffer
    imgset_writers,             \* (baseline, component) -> per float, the
                                \* consumers that wrote it, in order
    baseline_flagmasks          \* baseline -> mask buffer

\* The flag files (flag_io.rs)
VARIABLES
    corr_ctx,                   \* the CorrelatorContext of the flag files
    filename_template,          \* argument: a string, one character each
    gpubox_ids,                 \* argument
    disk,                       \* file name -> the FITS file on disk
    gpubox_fptrs,               \* FlagFileSet: gpubox id -> its open file
    flag_pc,                    \* the thread using the flag files
    flag_result,                \* what its last call returned
    flag_visited,               \* the files the running loop is done with
    mask_flagged,               \* argument: the (baseline, offset) set in
                                \* the buffers of the masks
    mask_stride,                \* HorizontalStride of the masks
    chan_header_flags_raw       \* gpubox id -> (header, raw flags) read back

\* The chunks of main_with_args (main.rs)
VARIABLES
    time_chunk,                 \* --time-chunk, an Option
    max_memory,                 \* --max-memory, an Option: the timesteps of
                                \* the selection that fit in it
    avg_time,                   \* the time averaging factor
    flag_template,              \* --flag-template is present
    uvfits_out,                 \* --uvfits-out is present
    ms_out,                     \* --ms-out is present
    full_sel_timestep_range,    \* vis_sel.timestep_range
    num_timesteps_per_chunk,    \* Option<usize>
    writers,                    \* the outputs that are created: the writers
                                \* that are initialised, the flag files
    chunk_pc,                   \* main_with_args
    next_timestep,              \* the first timestep the chunks iterator
                                \* has not given out
    written_jones,              \* the visibilities given to the writers
    written_flags               \* the flags given to the writers

kvars == <<time_chunk, max_memory, avg_time, flag_template, uvfits_out, ms_out,
           full_sel_timestep_range, num_timesteps_per_chunk, writers, chunk_pc,
           next_timestep, written_jones, written_flags>>
fvars == <<corr_ctx, filename_template, gpubox_ids, disk, gpubox_fptrs,
           flag_pc, flag_result, flag_visited, mask_flagged, mask_stride,
           chan_header_flags_raw>>
bvars == <<mwalib_timestep_range, mwalib_baseline_indices, failing,
           flag_array, rx_error, tx_error_dropped, main_pc, result,
           worker_ts, hdu_buffer, collector_pc, progress_pc,
           read_log, jones_writer>>
mvars == <<cable_delays_applied, geometric_delays_applied, no_cable_delay,
           no_geometric_delay, prep_ctx, fvars, kvars>>
ivars == <<img_visibility_pols, img_coarse_chan_idxs, img_timestep_idxs,
           masks_given, img_failing, img_read_log, img_pc, job_queue, producer,
           pol_img_queues,
           img_rx_error, consumer_pc, img_collector_pc, img_progress_pc,
           baseline_imgsets, imgset_writers, baseline_flagmasks>>
cvars == <<jones_orig, antennas, corr_pc, corr_done, corr_calls, mvars, ivars>>
vars == <<mwalib_coarse_chan_range, jones_array, bvars, cvars>>

\* The ranges a caller selects: from any first index to the last one of the
\* observation, the empty range included.
Ranges(n) == {[start |-> s, end |-> n] : s \in 0..n}

\* Range<usize>::len
RangeLen(r) == IF r.end > r.start THEN r.end - r.start ELSE 0
\* Range<usize>::contains
RangeContains(r, i) == r.start <= i /\ i < r.end

ZeroJones == [p \in 1..floats_per_chan |-> 0]

\* Array3::from_elem(shape, elem)
Array3(shape, elem) ==
    [cell \in (0..(shape[1] - 1)) \X (0..(shape[2] - 1)) \X (0..(shape[3] - 1))
        |-> elem]

\* ------------------------------------------------------------------------
\* context_to_jones_array
\* ------------------------------------------------------------------------
num_timesteps == RangeLen(mwalib_timestep_range)
num_coarse_chans == RangeLen(mwalib_coarse_chan_range)
num_baselines == Len(mwalib_baseline_indices)
floats_per_hdu == floats_per_baseline * num_baselines

\* Mutant: the channel axis counts coarse channels, not fine channels.
ShapeCoarseOnly(timestep_range, coarse_chan_range, baseline_indices) ==
    <<RangeLen(timestep_range),
      RangeLen(coarse_chan_range),
      Len(baseline_indices)>>

\* let shape = (num_timesteps, num_chans, num_baselines)
Shape(timestep_range, coarse_chan_range, baseline_indices) ==
    <<RangeLen(timestep_range),
      RangeLen(coarse_chan_range) * num_corr_fine_chans_per_coarse,
      Len(baseline_indices)>>

\* The tasks of the parallel iterator: one per chunk of the channel axis.
Workers == 0..(num_coarse_chans - 1)

\* Mutant: a chunk runs one channel into the next chunk.
AxisChunkOverlapping(k) ==
    (k * num_corr_fine_chans_per_coarse)
        ..((k + 1) * num_corr_fine_chans_per_coarse)

\* axis_chunks_iter_mut(Axis(1), fine_chans_per_coarse): the channels of
\* chunk k
AxisChunk(k) ==
    (k * num_corr_fine_chans_per_coarse)
        ..((k + 1) * num_corr_fine_chans_per_coarse - 1)

\* context.read_by_baseline_into_buffer: when the provider cannot read the
\* HDU it fails and leaves the buffer alone; otherwise it fills the buffer,
\* from its first float on, with as many floats of the HDU as the buffer
\* holds.
read_by_baseline_into_buffer(ts, cc, buffer, readable) ==
    IF ~readable
    THEN [ok |-> FALSE, buffer |-> buffer]
    ELSE [ok |-> TRUE,
          buffer |-> [i \in 1..Len(buffer) |-> HduFloat(ts, cc, i - 1)]]

\* Mutant: the products XY and YX are taken in the wrong order.
JonesFromChunkSwapped(buffer, bl, fc) ==
    [p \in 1..floats_per_chan |->
        buffer[bl * floats_per_baseline + fc * floats_per_chan
               + (IF p \in 3..4 THEN p + 2 ELSE IF p \in 5..6 THEN p - 2 ELSE p)]]

\* Jones::from of the chunk of fine channel fc of the chunk of baseline bl
JonesFromChunk(buffer, bl, fc) ==
    [p \in 1..floats_per_chan |->
        buffer[bl * floats_per_baseline + fc * floats_per_chan + p]]

\* Mutant: the view of the coarse channel is not cut down to the timestep.
InHduViewOfAllTimesteps(cell, t, k) == cell[2] \in AxisChunk(k)

\* The cells of the view of (img timestep t, chunk k) that the macro visits.
InHduView(cell, t, k) == cell[1] = t /\ cell[2] \in AxisChunk(k)

write_hdu_buffer_to_jones_view(arr, buffer, t, k) ==
    [cell \in DOMAIN arr |->
        IF InHduView(cell, t, k)
        THEN JonesFromChunk(buffer, cell[3],
                            cell[2] % num_corr_fine_chans_per_coarse)
        ELSE arr[cell]]

\* Mutant: the scratch buffer is copied into the cube whatever the result.
MatchReadJonesAlways(ok, arr, buffer, t, k) ==
    write_hdu_buffer_to_jones_view(arr, buffer, t, k)

\* match on the result of the read: the cube after the match
MatchReadJones(ok, arr, buffer, t, k) ==
    IF ok THEN write_hdu_buffer_to_jones_view(arr, buffer, t, k) ELSE arr

\* Mutant: only the first fine channel of the coarse channel is flagged.
FlagHduFirstChan(arr, img_timestep_idx, img_coarse_chan_idx) ==
    [cell \in DOMAIN arr |->
        IF /\ cell[1] = img_timestep_idx
           /\ cell[2] = img_coarse_chan_idx * num_corr_fine_chans_per_coarse
        THEN TRUE
        ELSE arr[cell]]

\* Mutant: the whole timestep is flagged, whatever the coarse channel.
FlagHduAllChans(arr, img_timestep_idx, img_coarse_chan_idx) ==
    [cell \in DOMAIN arr |->
        IF cell[1] = img_timestep_idx THEN TRUE ELSE arr[cell]]

\* The collector's two nested loops: hdu_flags_view.fill(true)
FlagHdu(arr, img_timestep_idx, img_coarse_chan_idx) ==
    [cell \in DOMAIN arr |->
        IF cell[1] = img_timestep_idx /\ cell[2] \in AxisChunk(img_coarse_chan_idx)
        THEN TRUE
        ELSE arr[cell]]

\* The selections of baselines a caller passes: all baselines, the second
\* one alone, none, and one index that is out of bounds.
BaselineRun(lo, hi) == [i \in 1..(hi - lo) |-> lo + i - 1]
BaselineSelections ==
    {BaselineRun(0, metafits_num_baselines),
     <<1>>,
     <<>>,
     <<metafits_num_baselines>>}

HdusOf(timestep_range, coarse_chan_range) ==
    {h \in (0..(MaxTimesteps - 1)) \X (0..(MaxCoarseChans - 1)) :
        /\ RangeContains(timestep_range, h[1])
        /\ RangeContains(coarse_chan_range, h[2])}

\* The chunks of main_with_args are not involved.
NoChunks ==
    /\ time_chunk = [is_some |-> FALSE, value |-> 0]
    /\ max_memory = [is_some |-> FALSE, value |-> 0]
    /\ avg_time = 1
    /\ flag_template = FALSE
    /\ uvfits_out = FALSE
    /\ ms_out = FALSE
    /\ full_sel_timestep_range = [start |-> 0, end |-> 0]
    /\ num_timesteps_per_chunk = [is_some |-> FALSE, value |-> 0]
    /\ writers = {}
    /\ chunk_pc = "off"
    /\ next_timestep = 0
    /\ written_jones = <<>>
    /\ written_flags = <<>>

\* The flag files are not involved.
NoFlagFiles ==
    /\ corr_ctx = <<>>
    /\ filename_template = <<>>
    /\ gpubox_ids = {}
    /\ disk = <<>>
    /\ gpubox_fptrs = <<>>
    /\ flag_pc = "off"
    /\ flag_result = "none"
    /\ flag_visited = {}
    /\ mask_flagged = {}
    /\ mask_stride = 0
    /\ chan_header_flags_raw = <<>>

\* The imgsets loader is not involved.
NoImgsets ==
    /\ img_visibility_pols = 0
    /\ img_coarse_chan_idxs = <<>>
    /\ img_timestep_idxs = <<>>
    /\ masks_given = FALSE
    /\ img_failing = {}
    /\ img_read_log = <<>>
    /\ img_pc = "off"
    /\ job_queue = <<>>
    /\ producer = <<>>
    /\ pol_img_queues = <<>>
    /\ img_rx_error = <<>>
    /\ consumer_pc = <<>>
    /\ img_collector_pc = "off"
    /\ img_progress_pc = "off"
    /\ baseline_imgsets = <<>>
    /\ imgset_writers = <<>>
    /\ baseline_flagmasks = <<>>

\* The command line is not involved.
NoMain ==
    /\ cable_delays_applied = FALSE
    /\ geometric_delays_applied = "No"
    /\ no_cable_delay = FALSE
    /\ no_geometric_delay = FALSE
    /\ prep_ctx = [correct_cable_lengths |-> FALSE, correct_geometry |-> FALSE]
    /\ NoImgsets
    /\ NoFlagFiles
    /\ NoChunks

NoCorrection ==
    /\ jones_orig = <<>>
    /\ antennas = <<>>
    /\ corr_pc = "off"
    /\ corr_done = {}
    /\ corr_calls = [cable |-> 0, geom |-> 0]
    /\ NoMain

\* The arguments of a call: any ranges with the whole list of baselines, or
\* a partial list of baselines with ranges of at most one HDU.
Init ==
    /\ mwalib_timestep_range \in Ranges(MaxTimesteps)
    /\ mwalib_coarse_chan_range \in Ranges(MaxCoarseChans)
    /\ mwalib_baseline_indices \in BaselineSelections
    /\ \/ mwalib_baseline_indices = BaselineRun(0, metafits_num_baselines)
       \/ /\ RangeLen(mwalib_timestep_range) <= 1
          /\ RangeLen(mwalib_coarse_chan_range) <= 1
    /\ failing = {}
    /\ jones_array = Array3(Shape(mwalib_timestep_range, mwalib_coarse_chan_range,
                                  mwalib_baseline_indices), ZeroJones)
    /\ flag_array = Array3(Shape(mwalib_timestep_range, mwalib_coarse_chan_range,
                                 mwalib_baseline_indices), FALSE)
    /\ rx_error = <<>>
    /\ tx_error_dropped = FALSE
    /\ main_pc = "call"
    /\ result = "none"
    /\ worker_ts = [k \in Workers |-> 0]
    /\ hdu_buffer = [k \in Workers |-> <<>>]
    /\ collector_pc = "unspawned"
    /\ progress_pc = "unspawned"
    /\ read_log = [h \in (0..(MaxTimesteps - 1)) \X (0..(MaxCoarseChans - 1)) |-> 0]
    /\ jones_writer = [cell \in DOMAIN jones_array |-> <<>>]
    /\ NoCorrection

\* thread::scope: spawn the progress thread and the error collector, and
\* hand the chunks of the channel axis to the parallel iterator; each task
\* allocates its scratch buffer.
EnterScope ==
    /\ main_pc = "call"
    /\ main_pc' = "for_each"
    /\ progress_pc' = "join"
    /\ collector_pc' = "recv"
    /\ hdu_buffer' = [k \in Workers |-> [i \in 1..floats_per_hdu |-> 0]]
    /\ UNCHANGED <<mwalib_timestep_range, mwalib_coarse_chan_range,
                   mwalib_baseline_indices, failing, jones_array, flag_array,
                   rx_error, tx_error_dropped, result, worker_ts,
                   read_log, jones_writer, cvars>>

\* The task of chunk k has left its loop over the timesteps.
WorkerDone(k) == worker_ts[k] >= num_timesteps

\* Mutant: the timesteps are read from the last one to the first one.
WorkerStepReversed(k, readable) ==
    /\ main_pc = "for_each"
    /\ k \in Workers
    /\ ~WorkerDone(k)
    /\ ~readable => Cardinality(failing) < MaxFailures
    /\ LET mwalib_timestep_idx == mwalib_timestep_range.end - 1 - worker_ts[k]
           mwalib_coarse_chan_idx == mwalib_coarse_chan_range.start + k
           rd == read_by_baseline_into_buffer(mwalib_timestep_idx,
                                              mwalib_coarse_chan_idx,
                                              hdu_buffer[k], readable)
       IN  /\ hdu_buffer' = [hdu_buffer EXCEPT ![k] = rd.buffer]
           /\ failing' = IF rd.ok
                         THEN failing
                         ELSE failing \cup {<<mwalib_timestep_idx,
                                               mwalib_coarse_chan_idx>>}
           /\ read_log' = [read_log EXCEPT
                             ![<<mwalib_timestep_idx, mwalib_coarse_chan_idx>>] = @ + 1]
           /\ jones_array' = MatchReadJones(rd.ok, jones_array, rd.buffer,
                                            worker_ts[k], k)
           /\ jones_writer' =
                IF rd.ok
                THEN [cell \in DOMAIN jones_writer |->
                        IF InHduView(cell, worker_ts[k], k)
                        THEN Append(jones_writer[cell], k)
                        ELSE jones_writer[cell]]
                ELSE jones_writer
           /\ rx_error' = IF rd.ok
                          THEN rx_error
                          ELSE Append(rx_error, <<mwalib_timestep_idx,
                                                  mwalib_coarse_chan_idx>>)
    /\ worker_ts' = [worker_ts EXCEPT ![k] = @ + 1]
    /\ UNCHANGED <<mwalib_timestep_range, mwalib_coarse_chan_range,
                   mwalib_baseline_indices, flag_array, tx_error_dropped,
                   main_pc, result, collector_pc, progress_pc, cvars>>

\* Mutant: a task gives up its coarse channel at the first failed read.
WorkerStepReturnsOnError(k, readable) ==
    /\ main_pc = "for_each"
    /\ k \in Workers
    /\ ~WorkerDone(k)
    /\ ~readable => Cardinality(failing) < MaxFailures
    /\ LET mwalib_timestep_idx == mwalib_timestep_range.start + worker_ts[k]
           mwalib_coarse_chan_idx == mwalib_coarse_chan_range.start + k
           rd == read_by_baseline_into_buffer(mwalib_timestep_idx,
                                              mwalib_coarse_chan_idx,
                                              hdu_buffer[k], readable)
       IN  /\ hdu_buffer' = [hdu_buffer EXCEPT ![k] = rd.buffer]
           /\ failing' = IF rd.ok
                         THEN failing
                         ELSE failing \cup {<<mwalib_timestep_idx,
                                               mwalib_coarse_chan_idx>>}
           /\ read_log' = [read_log EXCEPT
                             ![<<mwalib_timestep_idx, mwalib_coarse_chan_idx>>] = @ + 1]
           /\ jones_array' = MatchReadJones(rd.ok, jones_array, rd.buffer,
                                            worker_ts[k], k)
           /\ jones_writer' =
                IF rd.ok
                THEN [cell \in DOMAIN jones_writer |->
                        IF InHduView(cell, worker_ts[k], k)
                        THEN Append(jones_writer[cell], k)
                        ELSE jones_writer[cell]]
                ELSE jones_writer
           /\ rx_error' = IF rd.ok
                          THEN rx_error
                          ELSE Append(rx_error, <<mwalib_timestep_idx,
                                                  mwalib_coarse_chan_idx>>)
    /\ worker_ts' = [worker_ts EXCEPT ![k] = IF readable THEN @ + 1 ELSE num_timesteps]
    /\ UNCHANGED <<mwalib_timestep_range, mwalib_coarse_chan_range,
                   mwalib_baseline_indices, flag_array, tx_error_dropped,
                   main_pc, result, collector_pc, progress_pc, cvars>>

\* One iteration of the loop over the timesteps of the task of chunk k; the
\* provider can read the HDU or not.
WorkerStep(k, readable) ==
    /\ main_pc = "for_each"
    /\ k \in Workers
    /\ ~WorkerDone(k)
    /\ ~readable => Cardinality(failing) < MaxFailures
    /\ LET mwalib_timestep_idx == mwalib_timestep_range.start + worker_ts[k]
           mwalib_coarse_chan_idx == mwalib_coarse_chan_range.start + k
           rd == read_by_baseline_into_buffer(mwalib_timestep_idx,
                                              mwalib_coarse_chan_idx,
                                              hdu_buffer[k], readable)
       IN  /\ hdu_buffer' = [hdu_buffer EXCEPT ![k] = rd.buffer]
           /\ failing' = IF rd.ok
                         THEN failing
                         ELSE failing \cup {<<mwalib_timestep_idx,
                                               mwalib_coarse_chan_idx>>}
           /\ read_log' = [read_log EXCEPT
                             ![<<mwalib_timestep_idx, mwalib_coarse_chan_idx>>] = @ + 1]
           /\ jones_array' = MatchReadJones(rd.ok, jones_array, rd.buffer,
                                            worker_ts[k], k)
           /\ jones_writer' =
                IF rd.ok
                THEN [cell \in DOMAIN jones_writer |->
                        IF InHduView(cell, worker_ts[k], k)
                        THEN Append(jones_writer[cell], k)
                        ELSE jones_writer[cell]]
                ELSE jones_writer
           /\ rx_error' = IF rd.ok
                          THEN rx_error
                          ELSE Append(rx_error, <<mwalib_timestep_idx,
                                                  mwalib_coarse_chan_idx>>)
    /\ worker_ts' = [worker_ts EXCEPT ![k] = @ + 1]
    /\ UNCHANGED <<mwalib_timestep_range, mwalib_coarse_chan_range,
                   mwalib_baseline_indices, flag_array, tx_error_dropped,
                   main_pc, result, collector_pc, progress_pc, cvars>>

\* Mutant: the send side of the error channel is never dropped.
DropTxErrorForgotten ==
    /\ main_pc = "for_each"
    /\ \A k \in Workers : WorkerDone(k)
    /\ main_pc' = "join"
    /\ UNCHANGED <<mwalib_timestep_range, mwalib_coarse_chan_range,
                   mwalib_baseline_indices, failing, jones_array, flag_array,
                   rx_error, tx_error_dropped, result, worker_ts, hdu_buffer,
                   collector_pc, progress_pc, read_log, jones_writer, cvars>>

\* for_each has returned, every task has finished its progress bar:
\* drop(tx_error); total_progress.finish()
DropTxError ==
    /\ main_pc = "for_each"
    /\ \A k \in Workers : WorkerDone(k)
    /\ main_pc' = "join"
    /\ tx_error_dropped' = TRUE
    /\ UNCHANGED <<mwalib_timestep_range, mwalib_coarse_chan_range,
                   mwalib_baseline_indices, failing, jones_array, flag_array,
                   rx_error, result, worker_ts, hdu_buffer,
                   collector_pc, progress_pc, read_log, jones_writer, cvars>>

\* Mutant: a report that is taken off the channel after the send side was
\* dropped is discarded.
CollectorRecvUntilDropped ==
    /\ collector_pc = "recv"
    /\ rx_error # <<>>
    /\ LET mwalib_timestep_idx == Head(rx_error)[1]
           mwalib_coarse_chan_idx == Head(rx_error)[2]
           img_timestep_idx == mwalib_timestep_idx - mwalib_timestep_range.start
           img_coarse_chan_idx == mwalib_coarse_chan_idx - mwalib_coarse_chan_range.start
       IN  flag_array' = IF tx_error_dropped THEN flag_array
                         ELSE FlagHdu(flag_array, img_timestep_idx, img_coarse_chan_idx)
    /\ rx_error' = Tail(rx_error)
    /\ UNCHANGED <<mwalib_timestep_range, mwalib_coarse_chan_range,
                   mwalib_baseline_indices, failing, jones_array,
                   tx_error_dropped, main_pc, result, worker_ts,
                   hdu_buffer, collector_pc, progress_pc,
                   read_log, jones_writer, cvars>>

\* The collector takes one report off the channel and flags its HDU.
CollectorRecv ==
    /\ collector_pc = "recv"
    /\ rx_error # <<>>
    /\ LET mwalib_timestep_idx == Head(rx_error)[1]
           mwalib_coarse_chan_idx == Head(rx_error)[2]
           img_timestep_idx == mwalib_timestep_idx - mwalib_timestep_range.start
           img_coarse_chan_idx == mwalib_coarse_chan_idx - mwalib_coarse_chan_range.start
       IN  flag_array' = FlagHdu(flag_array, img_timestep_idx, img_coarse_chan_idx)
    /\ rx_error' = Tail(rx_error)
    /\ UNCHANGED <<mwalib_timestep_range, mwalib_coarse_chan_range,
                   mwalib_baseline_indices, failing, jones_array,
                   tx_error_dropped, main_pc, result, worker_ts,
                   hdu_buffer, collector_pc, progress_pc,
                   read_log, jones_writer, cvars>>

\* Mutant: the collector leaves as soon as it finds the channel empty.
CollectorExitOnEmpty ==
    /\ collector_pc = "recv"
    /\ rx_error = <<>>
    /\ collector_pc' = "done"
    /\ UNCHANGED <<mwalib_timestep_range, mwalib_coarse_chan_range,
                   mwalib_baseline_indices, failing, jones_array, flag_array,
                   rx_error, tx_error_dropped, main_pc, result,
                   worker_ts, hdu_buffer, progress_pc,
                   read_log, jones_writer, cvars>>

\* The channel is empty and disconnected: the collector's loop ends.
CollectorExit ==
    /\ collector_pc = "recv"
    /\ rx_error = <<>>
    /\ tx_error_dropped
    /\ collector_pc' = "done"
    /\ UNCHANGED <<mwalib_timestep_range, mwalib_coarse_chan_range,
                   mwalib_baseline_indices, failing, jones_array, flag_array,
                   rx_error, tx_error_dropped, main_pc, result,
                   worker_ts, hdu_buffer, progress_pc,
                   read_log, jones_writer, cvars>>

\* multi_progress.join() returns once every bar is finished: the bars of
\* the tasks and, last, the total bar.
ProgressJoin ==
    /\ progress_pc = "join"
    /\ main_pc = "join"
    /\ progress_pc' = "done"
    /\ UNCHANGED <<mwalib_timestep_range, mwalib_coarse_chan_range,
                   mwalib_baseline_indices, failing, jones_array, flag_array,
                   rx_error, tx_error_dropped, main_pc, result,
                   worker_ts, hdu_buffer, collector_pc,
                   read_log, jones_writer, cvars>>

\* Mutant: the collector is detached, the scope does not wait for it.
ScopeJoinWithoutCollector ==
    /\ main_pc = "join"
    /\ progress_pc = "done"
    /\ main_pc' = "returned"
    /\ result' = "Ok"
    /\ UNCHANGED <<mwalib_timestep_range, mwalib_coarse_chan_range,
                   mwalib_baseline_indices, failing, jones_array, flag_array,
                   rx_error, tx_error_dropped, worker_ts,
                   hdu_buffer, collector_pc, progress_pc,
                   read_log, jones_writer, cvars>>

\* The scope joins its threads; the call returns Ok((jones_array, flag_array))
ScopeJoin ==
    /\ main_pc = "join"
    /\ collector_pc = "done"
    /\ progress_pc = "done"
    /\ main_pc' = "returned"
    /\ result' = "Ok"
    /\ UNCHANGED <<mwalib_timestep_range, mwalib_coarse_chan_range,
                   mwalib_baseline_indices, failing, jones_array, flag_array,
                   rx_error, tx_error_dropped, worker_ts,
                   hdu_buffer, collector_pc, progress_pc,
                   read_log, jones_writer, cvars>>

Next ==
    \/ EnterScope
    \/ \E k \in Workers, readable \in BOOLEAN : WorkerStep(k, readable)
    \/ DropTxError
    \/ CollectorRecv
    \/ CollectorExit
    \/ ProgressJoin
    \/ ScopeJoin

Spec == Init /\ [][Next]_vars

\* Every thread of the call is an OS thread (or a task of the rayon pool):
\* while one of them can take a step, a step is eventually taken.
LiveSpec == Spec /\ WF_vars(Next)

\* ------------------------------------------------------------------------
\* Properties of context_to_jones_array
\* ------------------------------------------------------------------------
FinePerCoarse == num_corr_fine_chans_per_coarse
Returned == main_pc = "returned"

\* The img indices (t, k) of the HDU (ts, cc) of the selection
ImgTimestep(h) == h[1] - mwalib_timestep_range.start
ImgCoarseChan(h) == h[2] - mwalib_coarse_chan_range.start
\* The HDUs of the selection
SelectedHdus == HdusOf(mwalib_timestep_range, mwalib_coarse_chan_range)
\* The HDU a cell belongs to
HduOfCell(cell) ==
    <<cell[1] + mwalib_timestep_range.start,
      (cell[2] \div FinePerCoarse) + mwalib_coarse_chan_range.start>>
\* The HDUs whose loop iteration is over and whose read succeeded
ReadOk == {h \in SelectedHdus \ failing :
             ImgTimestep(h) < worker_ts[ImgCoarseChan(h)]}
\* The cells of the extent of an HDU
Extent(h) ==
    {<<ImgTimestep(h), ImgCoarseChan(h) * FinePerCoarse + fc, b>> :
        fc \in 0..(FinePerCoarse - 1), b \in 0..(Len(mwalib_baseline_indices) - 1)}

\* C1: when the call has returned it has returned Ok, and for every HDU
\* (T, C) whose read fails the flag array is true at (T - start, f, b) for
\* every fine channel f of C and every baseline b, whatever the failures.
C1_FailedHdusFlagged ==
    Returned =>
        /\ result = "Ok"
        /\ \A h \in failing : \A cell \in Extent(h) :
              cell \in DOMAIN flag_array /\ flag_array[cell] = TRUE

C1_Witness ==
    /\ Returned
    /\ Cardinality(failing) >= 2
    /\ Len(mwalib_baseline_indices) >= 2

\* C2: a flag is never true in a cell of an HDU whose read did not fail, and
\* on return the flags are true exactly on the extents of the failed HDUs.
C2_FlagsExactlyFailed ==
    \A cell \in DOMAIN flag_array :
        /\ flag_array[cell] = TRUE => HduOfCell(cell) \in failing
        /\ Returned => (flag_array[cell] = TRUE <=> HduOfCell(cell) \in failing)

C2_Witness ==
    /\ Returned
    /\ \E c1, c2 \in DOMAIN flag_array :
          /\ flag_array[c1] = TRUE
          /\ flag_array[c2] = FALSE
          /\ c1[1] = c2[1]

\* C3: every HDU read successfully is in the cube as a transpose of the
\* provider's buffer: cell (t, cc * fine_per_coarse + fc, b) holds the 8
\* floats at offset b * floats_per_baseline + fc * floats_per_chan.
C3_Transpose ==
    \A h \in ReadOk :
        \A fc \in 0..(FinePerCoarse - 1), b \in 0..(Len(mwalib_baseline_indices) - 1) :
            LET cell == <<ImgTimestep(h), ImgCoarseChan(h) * FinePerCoarse + fc, b>>
                off == b * (8 * FinePerCoarse) + fc * 8
            IN  /\ cell \in DOMAIN jones_array
                /\ jones_array[cell] =
                     <<HduFloat(h[1], h[2], off), HduFloat(h[1], h[2], off + 1),
                       HduFloat(h[1], h[2], off + 2), HduFloat(h[1], h[2], off + 3),
                       HduFloat(h[1], h[2], off + 4), HduFloat(h[1], h[2], off + 5),
                       HduFloat(h[1], h[2], off + 6), HduFloat(h[1], h[2], off + 7)>>

C3_Witness ==
    /\ Returned
    /\ Cardinality(ReadOk) >= 2
    /\ Len(mwalib_baseline_indices) >= 2

\* C4: the visibility array and the flag array have the shape
\* (len(Rt), len(Rc) * fine_per_coarse, len(B)) in every state of the call.
C4_Shape ==
    LET cells == (0..(RangeLen(mwalib_timestep_range) - 1))
                   \X (0..(RangeLen(mwalib_coarse_chan_range) * FinePerCoarse - 1))
                   \X (0..(Len(mwalib_baseline_indices) - 1))
    IN  /\ DOMAIN jones_array = cells
        /\ DOMAIN flag_array = cells

C4_Witness ==
    /\ main_pc = "for_each"
    /\ \E k \in Workers : ~WorkerDone(k) /\ worker_ts[k] > 0
    /\ Cardinality(DOMAIN jones_array) >= 2 * FinePerCoarse * 2

\* C5: position k of the baseline axis holds the visibilities of the
\* observation's baseline B[k], for every list B of baselines.
C5_SelectedBaselines ==
    Returned =>
        \A h \in ReadOk :
            \A fc \in 0..(FinePerCoarse - 1), k \in 0..(Len(mwalib_baseline_indices) - 1) :
                mwalib_baseline_indices[k + 1] < metafits_num_baselines =>
                    jones_array[<<ImgTimestep(h), ImgCoarseChan(h) * FinePerCoarse + fc, k>>]
                        = [p \in 1..8 |->
                             VisFloat(h[1], h[2], mwalib_baseline_indices[k + 1], fc, p - 1)]

\* C6: the cells of an HDU whose read failed hold the zero Jones matrix.
C6_FailedStayZero ==
    \A h \in failing : \A cell \in Extent(h) :
        cell \in DOMAIN jones_array /\ jones_array[cell] = ZeroJones

\* the read of an HDU failed after the read of the timestep before it, in
\* the same coarse channel, had filled the scratch buffer
C6_Witness ==
    /\ Returned
    /\ Len(mwalib_baseline_indices) >= 1
    /\ \E h \in failing :
          /\ <<h[1] - 1, h[2]>> \in ReadOk
          /\ hdu_buffer[ImgCoarseChan(h)] # [i \in 1..floats_per_hdu |-> 0]

\* C7: with an empty timestep range, an empty coarse channel range or a
\* baseline index out of bounds the call returns an error: no thread is
\* spawned, no task starts and no HDU is read.
ConfigError ==
    \/ RangeLen(mwalib_timestep_range) = 0
    \/ RangeLen(mwalib_coarse_chan_range) = 0
    \/ \E i \in 1..Len(mwalib_baseline_indices) :
          mwalib_baseline_indices[i] >= metafits_num_baselines

C7_ConfigErrorFatal ==
    ConfigError =>
        /\ result # "Ok"
        /\ collector_pc = "unspawned"
        /\ progress_pc = "unspawned"
        /\ \A k \in Workers : hdu_buffer[k] = <<>>
        /\ \A h \in DOMAIN read_log : read_log[h] = 0

\* C8: every write of a cube cell is made by the task of the cell's coarse
\* channel, and a step of the collector leaves the visibility array alone.
C8_DisjointWrites ==
    /\ [](\A cell \in DOMAIN jones_writer :
            \A i \in 1..Len(jones_writer[cell]) :
                jones_writer[cell][i] = cell[2] \div FinePerCoarse)
    /\ [][flag_array' # flag_array =>
            jones_array' = jones_array /\ jones_writer' = jones_writer]_vars

C8_Witness ==
    /\ \E c0, c1 \in DOMAIN jones_writer :
          /\ Len(jones_writer[c0]) > 0 /\ jones_writer[c0][1] = 0
          /\ Len(jones_writer[c1]) > 0 /\ jones_writer[c1][1] = 1
    /\ \E cell \in DOMAIN flag_array : flag_array[cell] = TRUE
    /\ main_pc = "for_each"

\* C9: every call returns, and when it has returned every task is done,
\* the send side is dropped, the channel is drained and the collector and
\* the progress thread have exited.
C9_Terminates ==
    /\ <>Returned
    /\ [](Returned =>
            /\ \A k \in Workers : WorkerDone(k)
            /\ tx_error_dropped
            /\ rx_error = <<>>
            /\ collector_pc = "done"
            /\ progress_pc = "done")

C9_Witness ==
    /\ Returned
    /\ Cardinality(failing) >= 2
    /\ num_coarse_chans >= 2

\* The reports that are on the error channel
InFlight == {rx_error[i] : i \in 1..Len(rx_error)}

\* C26: at every moment every failed read is either still on the error
\* channel or applied to the whole extent of its HDU in the flag array;
\* when the call has returned the channel is empty and the collector has
\* exited, and no step changes the flag array after the return.
C26_ReportsAppliedOnReturn ==
    /\ [](\A h \in failing :
            \/ h \in InFlight
            \/ \A cell \in Extent(h) : flag_array[cell] = TRUE)
    /\ [](Returned => (rx_error = <<>> /\ collector_pc = "done"))
    /\ [][Returned => (flag_array' = flag_array /\ rx_error' = rx_error)]_vars

\* The call has returned after the tasks of two coarse channels had
\* reported a failure each, for HDUs with cells.
C26_Witness ==
    /\ Returned
    /\ Len(mwalib_baseline_indices) >= 1
    /\ \E h1, h2 \in failing :
          /\ h1[2] # h2[2]
          /\ \A cell \in Extent(h1) \cup Extent(h2) : flag_array[cell] = TRUE

\* C27: at every moment the HDUs whose read has been attempted are those
\* that the loops of the tasks have passed, each attempted once, whether
\* reads before them failed or not; when the call has returned the read of
\* every HDU of the two ranges has been attempted exactly once and no
\* other HDU has been read.
C27_EveryHduAttemptedOnce ==
    /\ \A h \in SelectedHdus :
          read_log[h] = IF ImgTimestep(h) < worker_ts[ImgCoarseChan(h)] THEN 1 ELSE 0
    /\ \A h \in DOMAIN read_log : h \notin SelectedHdus => read_log[h] = 0
    /\ Returned => \A h \in SelectedHdus : read_log[h] = 1

\* The call has returned; the read of an HDU failed, the read of the next
\* timestep of its coarse channel succeeded, and so did a read of another
\* coarse channel.
C27_Witness ==
    /\ Returned
    /\ \E h \in failing :
          /\ <<h[1] + 1, h[2]>> \in ReadOk
          /\ \E g \in ReadOk : g[2] # h[2]

ElectricalLengths == {0, 1}

\* context.get_fine_chan_freqs_hz_array: the frequencies of the fine
\* channels of the given coarse channels, in ascending order
FineChanFreq(cc, fc) == 1 + cc * num_corr_fine_chans_per_coarse + fc
\* Mutant: the frequencies are those of the first coarse channels of the
\* observation, whatever the range.
all_freqs_hz_from_zero ==
    [i \in 1..(num_coarse_chans * num_corr_fine_chans_per_coarse) |->
        FineChanFreq((i - 1) \div num_corr_fine_chans_per_coarse,
                     (i - 1) % num_corr_fine_chans_per_coarse)]

all_freqs_hz ==
    [i \in 1..(num_coarse_chans * num_corr_fine_chans_per_coarse) |->
        FineChanFreq(mwalib_coarse_chan_range.start
                        + ((i - 1) \div num_corr_fine_chans_per_coarse),
                     (i - 1) % num_corr_fine_chans_per_coarse)]

\* angle.sin_cos() of an angle of q quarter turns, as (cos, sin)
QuarterTurns(length_m, freq_hz) == (4 - ((length_m * freq_hz) % 4)) % 4
\* Mutant: the sine and the cosine are not those of one angle.
CosSinNotUnit(q) == <<<<1, 0>>, <<1, 1>>, <<-1, 0>>, <<1, -1>>>>[q + 1]

CosSin(q) == <<<<1, 0>>, <<0, 1>>, <<-1, 0>>, <<0, -1>>>>[q + 1]

\* Complex::new(cos_angle, sin_angle) for a length and a frequency
Rotation(length_m, freq_hz) == CosSin(QuarterTurns(length_m, freq_hz))

\* (re, im) *= rotation
ComplexMul(re, im, rotation) ==
    <<re * rotation[1] - im * rotation[2], re * rotation[2] + im * rotation[1]>>

\* for (pol_complex, rotation) in jones.iter_mut().zip(pol_sin_cos)
RotateJones(jones, pol_sin_cos) ==
    [p \in 1..floats_per_chan |->
        ComplexMul(jones[2 * ((p - 1) \div 2) + 1], jones[2 * ((p - 1) \div 2) + 2],
                   pol_sin_cos[((p - 1) \div 2) + 1])[((p - 1) % 2) + 1]]

pol_lengths(ant1, ant2) ==
    <<ant2.rfinput_x - ant1.rfinput_x,
      ant2.rfinput_y - ant1.rfinput_y,
      ant2.rfinput_y - ant1.rfinput_x,
      ant2.rfinput_x - ant1.rfinput_y>>

\* Mutant: autocorrelations are corrected like every other baseline.
SkipBaselineNever(baseline) == FALSE

\* Mutant: a baseline that was corrected by an earlier call is skipped.
SkipBaselineIfApplied(baseline) ==
    \/ baseline.ant1_index = baseline.ant2_index
    \/ corr_calls.cable > 1

\* if baseline.ant1_index == baseline.ant2_index { return; }
SkipBaseline(baseline) == baseline.ant1_index = baseline.ant2_index

\* The body of the for_each for the view of the baseline at position bl.
CableCorrectBaseline(arr, bl) ==
    LET baseline == baselines[bl + 1]
        lengths == pol_lengths(antennas[baseline.ant1_index + 1],
                               antennas[baseline.ant2_index + 1])
    IN  IF SkipBaseline(baseline) THEN arr
        ELSE [cell \in DOMAIN arr |->
                IF cell[3] = bl /\ cell[2] + 1 <= Len(all_freqs_hz)
                THEN RotateJones(arr[cell],
                                 [i \in 1..4 |->
                                    Rotation(lengths[i], all_freqs_hz[cell[2] + 1])])
                ELSE arr[cell]]

\* The cube and the flags context_to_jones_array returns for a selection of
\* all baselines.
BuiltJones(timestep_range, coarse_chan_range, failed) ==
    [cell \in DOMAIN Array3(Shape(timestep_range, coarse_chan_range,
                                  BaselineRun(0, metafits_num_baselines)), 0) |->
        LET ts == cell[1] + timestep_range.start
            cc == (cell[2] \div num_corr_fine_chans_per_coarse) + coarse_chan_range.start
        IN  IF <<ts, cc>> \in failed THEN ZeroJones
            ELSE JonesFromChunk([i \in 1..(metafits_num_baselines * floats_per_baseline)
                                    |-> HduFloat(ts, cc, i - 1)],
                                cell[3], cell[2] % num_corr_fine_chans_per_coarse)]

Antennas ==
    [1..num_ants -> [rfinput_x : ElectricalLengths, rfinput_y : ElectricalLengths]]

\* The positions of the baseline axis that axis_iter_mut(Axis(2)).zip(baselines)
\* visits
CorrBaselines ==
    {bl \in 0..(metafits_num_baselines - 1) :
        \E cell \in DOMAIN jones_array : cell[3] = bl}

\* A cube that context_to_jones_array returned, about to be corrected.
CorrInit ==
    /\ mwalib_timestep_range = [start |-> 0, end |-> MaxTimesteps]
    /\ mwalib_coarse_chan_range \in {r \in Ranges(MaxCoarseChans) : RangeLen(r) > 0}
    /\ mwalib_baseline_indices = BaselineRun(0, metafits_num_baselines)
    /\ failing \in {{}, {<<0, mwalib_coarse_chan_range.start>>}}
    /\ jones_array = BuiltJones(mwalib_timestep_range, mwalib_coarse_chan_range, failing)
    /\ flag_array = [cell \in DOMAIN jones_array |-> jones_array[cell] = ZeroJones]
    /\ rx_error = <<>>
    /\ tx_error_dropped = TRUE
    /\ main_pc = "returned"
    /\ result = "Ok"
    /\ worker_ts = [k \in Workers |-> num_timesteps]
    /\ hdu_buffer = [k \in Workers |-> <<>>]
    /\ collector_pc = "done"
    /\ progress_pc = "done"
    /\ read_log = [h \in (0..(MaxTimesteps - 1)) \X (0..(MaxCoarseChans - 1)) |-> 0]
    /\ jones_writer = [cell \in DOMAIN jones_array |-> <<>>]
    /\ jones_orig = jones_array
    /\ antennas \in Antennas
    /\ corr_pc = "cable"
    /\ corr_done = {}
    /\ corr_calls = [cable |-> 1, geom |-> 0]
    /\ NoMain

\* One task of the parallel iterator over the baseline axis.
CableBaseline(bl) ==
    /\ corr_pc = "cable"
    /\ bl \in CorrBaselines \ corr_done
    /\ jones_array' = CableCorrectBaseline(jones_array, bl)
    /\ corr_done' = corr_done \cup {bl}
    /\ UNCHANGED <<mwalib_coarse_chan_range, bvars, jones_orig, antennas, corr_pc,
                   corr_calls, mvars, ivars>>

\* for_each has returned: correction_progress.finish()
CableFinish ==
    /\ corr_pc = "cable"
    /\ corr_done = CorrBaselines
    /\ corr_pc' = "cable_done"
    /\ UNCHANGED <<mwalib_coarse_chan_range, jones_array, bvars, jones_orig,
                   antennas, corr_done, corr_calls, mvars, ivars>>

CorrNext ==
    \/ \E bl \in 0..(metafits_num_baselines - 1) : CableBaseline(bl)
    \/ CableFinish

SpecCorr == CorrInit /\ [][CorrNext]_vars

\* ------------------------------------------------------------------------
\* Properties of correct_cable_lengths
\* ------------------------------------------------------------------------
IsAuto(bl) == baselines[bl + 1].ant1_index = baselines[bl + 1].ant2_index

\* C10: every sample of a baseline with ant1 == ant2 is what it was before
\* the correction, at every timestep and channel; the cells the correction
\* has changed are cells of baselines with ant1 != ant2.
C10_AutosUnchanged ==
    \A cell \in DOMAIN jones_array :
        /\ IsAuto(cell[3]) => jones_array[cell] = jones_orig[cell]
        /\ jones_array[cell] # jones_orig[cell] => ~IsAuto(cell[3])

\* the correction is over, it has rotated a cross-correlation, and it has
\* passed over an autocorrelation with data whose antenna has feeds of
\* different lengths
C10_Witness ==
    /\ corr_pc = "cable_done"
    /\ \E cell \in DOMAIN jones_array :
          ~IsAuto(cell[3]) /\ jones_array[cell] # jones_orig[cell]
    /\ \E cell \in DOMAIN jones_array :
          /\ IsAuto(cell[3])
          /\ jones_orig[cell] # ZeroJones
          /\ LET ant == antennas[baselines[cell[3] + 1].ant1_index + 1]
             IN  ant.rfinput_x # ant.rfinput_y

\* The polarization products XX, XY, YX, YY of a Jones matrix
Pols == 1..4
\* The complex number of product pol in a Jones matrix of 8 floats
PolComplex(jones, pol) == <<jones[2 * pol - 1], jones[2 * pol]>>
\* The quarter turns by which product pol of a cell has been rotated since
\* the cube was built: one value when the sample is a rotation of a sample
\* that is not zero.
TurnsOf(cell, pol) ==
    {q \in 0..3 :
        ComplexMul(jones_orig[cell][2 * pol - 1], jones_orig[cell][2 * pol],
                   CosSin(q)) = PolComplex(jones_array[cell], pol)}
\* The frequency of channel c of the cube
ChanFreq(c) ==
    FineChanFreq(mwalib_coarse_chan_range.start + (c \div FinePerCoarse),
                 c % FinePerCoarse)
\* length(a2, pol_b) - length(a1, pol_a) for XX, XY, YX, YY
FeedLengthDifference(bl) ==
    LET a1 == antennas[baselines[bl + 1].ant1_index + 1]
        a2 == antennas[baselines[bl + 1].ant2_index + 1]
    IN  <<a2.rfinput_x - a1.rfinput_x,
          a2.rfinput_y - a1.rfinput_x,
          a2.rfinput_x - a1.rfinput_y,
          a2.rfinput_y - a1.rfinput_y>>
\* The cells with data of a cross-correlation that the running call of
\* correct_cable_lengths has corrected
CableCorrected(cell) ==
    /\ cell[3] \in corr_done
    /\ jones_orig[cell] # ZeroJones
    /\ ~IsAuto(cell[3])

\* C11: the products XX, XY, YX, YY of a corrected cross-correlation are
\* rotated with the length differences x2-x1, y2-x1, x2-y1, y2-y1, also
\* when the X and Y lengths of an antenna differ.
C11_FeedPairLengths ==
    \A cell \in DOMAIN jones_array :
        CableCorrected(cell) =>
            \A pol \in Pols :
                TurnsOf(cell, pol)
                    = {QuarterTurns(FeedLengthDifference(cell[3])[pol],
                                    ChanFreq(cell[2]))}

\* C12: the cells (t1, c, b) and (t2, c, b) of a corrected baseline are
\* rotated by the same angle for each product, the angle of the frequency
\* of channel c of the given coarse channel range.
C12_SameAcrossTimesteps ==
    \A c1 \in DOMAIN jones_array :
        CableCorrected(c1) =>
            LET bl == baselines[c1[3] + 1]
                lengths == pol_lengths(antennas[bl.ant1_index + 1],
                                       antennas[bl.ant2_index + 1])
            IN  \A pol \in Pols :
                    LET turns == TurnsOf(c1, pol)
                    IN  /\ turns = {QuarterTurns(lengths[pol], ChanFreq(c1[2]))}
                        /\ \A t2 \in 0..(MaxTimesteps - 1) :
                              (<<t2, c1[2], c1[3]>> \in DOMAIN jones_array
                                 /\ CableCorrected(<<t2, c1[2], c1[3]>>))
                                  => TurnsOf(<<t2, c1[2], c1[3]>>, pol) = turns

\* two timesteps of one channel of a corrected baseline hold rotated data,
\* and the range of coarse channels does not start at the first one
C12_Witness ==
    /\ corr_pc = "cable_done"
    /\ mwalib_coarse_chan_range.start > 0
    /\ \E c1, c2 \in DOMAIN jones_array :
          /\ CableCorrected(c1) /\ CableCorrected(c2)
          /\ c1[1] # c2[1] /\ c1[2] = c2[2] /\ c1[3] = c2[3]
          /\ jones_array[c1] # jones_orig[c1]
          /\ jones_array[c2] # jones_orig[c2]

\* ------------------------------------------------------------------------
\* correct_geometry
\* ------------------------------------------------------------------------
\* The number of calls of the corrections a caller makes on one cube
MaxCalls == 2

\* The w coordinate of a tile at a timestep of the observation, after the
\* precession to the epoch of the timestep, in the unit of the electrical
\* lengths: prec_info.precess_xyz_parallel and UVW::from_xyz are linear, so
\* the w of a difference of positions is the difference of the w's.
TileW(ts, ant) == (ts + 1) * ant

\* Mutant: the position of the first tile instead of the difference.
uvw_w_of_first_tile(t, baseline) ==
    TileW(mwalib_timestep_range.start + t, baseline.ant1_index)

\* Mutant: the positions precessed for the first timestep serve for all.
uvw_w_first_timestep(t, baseline) ==
    TileW(0, baseline.ant1_index) - TileW(0, baseline.ant2_index)

\* uvw.w of tiles_xyz_precessed[ant1_idx] - tiles_xyz_precessed[ant2_idx]
\* for position t of the timestep axis, zipped with timesteps[range]
uvw_w(t, baseline) ==
    TileW(mwalib_timestep_range.start + t, baseline.ant1_index)
        - TileW(mwalib_timestep_range.start + t, baseline.ant2_index)

\* *jones *= Complex::new(cos, sin): every product times the same number
JonesMulComplex(jones, rotation) ==
    RotateJones(jones, [i \in 1..num_visibility_pols |-> rotation])

\* The body of the for_each for the view of the timestep at position t.
GeomCorrectTimestep(arr, t) ==
    [cell \in DOMAIN arr |->
        IF /\ cell[1] = t
           /\ cell[3] + 1 <= Len(baselines)
           /\ cell[2] + 1 <= Len(all_freqs_hz)
        THEN JonesMulComplex(arr[cell],
                             Rotation(uvw_w(t, baselines[cell[3] + 1]),
                                      all_freqs_hz[cell[2] + 1]))
        ELSE arr[cell]]

\* A caller of the library holds a cube and calls the corrections on it.
\* The lengths of the first antenna are the reference.
PipeInit ==
    /\ mwalib_timestep_range \in {r \in Ranges(MaxTimesteps) : RangeLen(r) > 0}
    /\ mwalib_coarse_chan_range = [start |-> 0, end |-> MaxCoarseChans]
    /\ mwalib_baseline_indices = BaselineRun(0, metafits_num_baselines)
    /\ failing = {}
    /\ jones_array = BuiltJones(mwalib_timestep_range, mwalib_coarse_chan_range, failing)
    /\ flag_array = [cell \in DOMAIN jones_array |-> FALSE]
    /\ rx_error = <<>>
    /\ tx_error_dropped = TRUE
    /\ main_pc = "returned"
    /\ result = "Ok"
    /\ worker_ts = [k \in Workers |-> num_timesteps]
    /\ hdu_buffer = [k \in Workers |-> <<>>]
    /\ collector_pc = "done"
    /\ progress_pc = "done"
    /\ read_log = [h \in (0..(MaxTimesteps - 1)) \X (0..(MaxCoarseChans - 1)) |-> 0]
    /\ jones_writer = [cell \in DOMAIN jones_array |-> <<>>]
    /\ jones_orig = jones_array
    /\ antennas \in {a \in Antennas : a[1].rfinput_x = 0 /\ a[1].rfinput_y = 0}
    /\ corr_pc = "idle"
    /\ corr_done = {}
    /\ corr_calls = [cable |-> 0, geom |-> 0]
    /\ NoMain

\* No correction is running.
CorrIdle == corr_pc \in {"idle", "cable_done", "geom_done"}

\* The caller calls correct_cable_lengths.
CableCall ==
    /\ CorrIdle
    /\ corr_calls.cable + corr_calls.geom < MaxCalls
    /\ corr_pc' = "cable"
    /\ corr_done' = {}
    /\ corr_calls' = [corr_calls EXCEPT !.cable = @ + 1]
    /\ UNCHANGED <<mwalib_coarse_chan_range, jones_array, bvars, jones_orig,
                   antennas, mvars, ivars>>

\* The caller calls correct_geometry.
GeomCall ==
    /\ CorrIdle
    /\ corr_calls.cable + corr_calls.geom < MaxCalls
    /\ corr_pc' = "geom"
    /\ corr_done' = {}
    /\ corr_calls' = [corr_calls EXCEPT !.geom = @ + 1]
    /\ UNCHANGED <<mwalib_coarse_chan_range, jones_array, bvars, jones_orig,
                   antennas, mvars, ivars>>

\* One task of the parallel iterator over the timestep axis.
GeomTimestep(t) ==
    /\ corr_pc = "geom"
    /\ t \in (0..(num_timesteps - 1)) \ corr_done
    /\ jones_array' = GeomCorrectTimestep(jones_array, t)
    /\ corr_done' = corr_done \cup {t}
    /\ UNCHANGED <<mwalib_coarse_chan_range, bvars, jones_orig, antennas, corr_pc,
                   corr_calls, mvars, ivars>>

\* for_each has returned: correction_progress.finish()
GeomFinish ==
    /\ corr_pc = "geom"
    /\ corr_done = 0..(num_timesteps - 1)
    /\ corr_pc' = "geom_done"
    /\ UNCHANGED <<mwalib_coarse_chan_range, jones_array, bvars, jones_orig,
                   antennas, corr_done, corr_calls, mvars, ivars>>

PipeNext ==
    \/ CableCall
    \/ \E bl \in 0..(metafits_num_baselines - 1) : CableBaseline(bl)
    \/ CableFinish
    \/ GeomCall
    \/ \E t \in 0..(MaxTimesteps - 1) : GeomTimestep(t)
    \/ GeomFinish

SpecPipe == PipeInit /\ [][PipeNext]_vars

\* ------------------------------------------------------------------------
\* Properties of the corrections
\* ------------------------------------------------------------------------
\* How often correct_cable_lengths has rotated a cell so far
NCable(cell) ==
    IF IsAuto(cell[3]) THEN 0
    ELSE IF corr_pc = "cable" /\ cell[3] \notin corr_done
         THEN corr_calls.cable - 1
         ELSE corr_calls.cable
\* How often correct_geometry has rotated a cell so far
NGeom(cell) ==
    IF corr_pc = "geom" /\ cell[1] \notin corr_done
    THEN corr_calls.geom - 1
    ELSE corr_calls.geom
\* The quarter turns of one cable-length correction of a product of a cell
CableTurns(cell, pol) ==
    QuarterTurns(pol_lengths(antennas[baselines[cell[3] + 1].ant1_index + 1],
                             antennas[baselines[cell[3] + 1].ant2_index + 1])[pol],
                 ChanFreq(cell[2]))
\* The quarter turns of one geometric correction of a cell: the w of the
\* baseline at the timestep of the cell, and the frequency of its channel
GeomTurns(cell) ==
    LET ts == mwalib_timestep_range.start + cell[1]
        w == TileW(ts, baselines[cell[3] + 1].ant1_index)
               - TileW(ts, baselines[cell[3] + 1].ant2_index)
    IN  QuarterTurns(w, ChanFreq(cell[2]))
\* |z|^2 of a product of a Jones matrix
NormSqr(jones, pol) == jones[2 * pol - 1] * jones[2 * pol - 1]
                         + jones[2 * pol] * jones[2 * pol]

\* C13: a sample that only correct_geometry has rotated, once, has all four
\* products rotated by one angle, the angle of the w of its baseline at its
\* timestep and of the frequency of its channel.
C13_GeomSameForAllPols ==
    \A cell \in DOMAIN jones_array :
        (corr_calls.cable = 0 /\ NGeom(cell) = 1 /\ jones_orig[cell] # ZeroJones)
            => \A pol \in Pols : TurnsOf(cell, pol) = {GeomTurns(cell)}

\* geometry has run on a cube of several timesteps and has turned a
\* sample of a timestep after the first one
C13_Witness ==
    /\ corr_pc = "geom_done"
    /\ corr_calls = [cable |-> 0, geom |-> 1]
    /\ mwalib_timestep_range.start = 0
    /\ \E cell \in DOMAIN jones_array :
          /\ cell[1] > 0
          /\ jones_array[cell] # jones_orig[cell]
          /\ GeomTurns(cell) # GeomTurns(<<0, cell[2], cell[3]>>)

\* C14: whatever corrections have run, every product of every sample has
\* the magnitude it had before them.
C14_PhaseOnly ==
    \A cell \in DOMAIN jones_array : \A pol \in Pols :
        NormSqr(jones_array[cell], pol) = NormSqr(jones_orig[cell], pol)

\* both corrections have run and have turned a sample
C14_Witness ==
    /\ CorrIdle
    /\ corr_calls = [cable |-> 1, geom |-> 1]
    /\ \E cell \in DOMAIN jones_array : \E pol \in Pols :
          /\ CableTurns(cell, pol) # 0
          /\ GeomTurns(cell) # 0
          /\ PolComplex(jones_array[cell], pol) # PolComplex(jones_orig[cell], pol)

\* C15: every call of a correction rotates its cells again: a product of a
\* sample is rotated by the angle of the cable-length correction times the
\* number of its calls plus the angle of the geometric correction times the
\* number of its calls.
C15_NotIdempotent ==
    \A cell \in DOMAIN jones_array :
        jones_orig[cell] # ZeroJones =>
            \A pol \in Pols :
                TurnsOf(cell, pol)
                    = {(NCable(cell) * CableTurns(cell, pol)
                          + NGeom(cell) * GeomTurns(cell)) % 4}

\* correct_cable_lengths has run twice, and a product it turns by a quarter
\* is now turned by a half
C15_Witness ==
    /\ corr_pc = "cable_done"
    /\ corr_calls = [cable |-> 2, geom |-> 0]
    /\ \E cell \in DOMAIN jones_array : \E pol \in Pols :
          /\ ~IsAuto(cell[3])
          /\ CableTurns(cell, pol) = 1
          /\ TurnsOf(cell, pol) = {2}

\* C25: while only correct_geometry has been called, every sample of a
\* baseline with ant1 == ant2 is what it was before, at every timestep and
\* channel, and the w of such a baseline is zero at every timestep.
C25_GeomAutosUnchanged ==
    corr_calls.cable = 0 =>
        \A cell \in DOMAIN jones_array :
            IsAuto(cell[3]) =>
                /\ jones_array[cell] = jones_orig[cell]
                /\ uvw_w(cell[1], baselines[cell[3] + 1]) = 0

\* correct_geometry has run over the autocorrelation of a tile away from
\* the origin, on data, and has turned a cross-correlation.
C25_Witness ==
    /\ corr_pc = "geom_done"
    /\ corr_calls = [cable |-> 0, geom |-> 1]
    /\ \E cell \in DOMAIN jones_array :
          /\ IsAuto(cell[3])
          /\ baselines[cell[3] + 1].ant1_index > 0
          /\ jones_orig[cell] # ZeroJones
    /\ \E cell \in DOMAIN jones_array : jones_array[cell] # jones_orig[cell]

\* ------------------------------------------------------------------------
\* main_with_args: the corrections of the command-line pipeline
\* ------------------------------------------------------------------------
\* mwalib::GeometricDelaysApplied
GeometricDelaysApplied == {"No", "Yes", "AzElTracking", "TilePointing"}

\* Mutant: a correction is enabled whenever it is wanted.
MainCorrectionOptionsWanted(applied_cable, no_cable, applied_geom, no_geom) ==
    [correct_cable_lengths |-> ~no_cable,
     correct_geometry |-> ~no_geom]

\* prep_ctx.correct_cable_lengths and prep_ctx.correct_geometry
MainCorrectionOptions(applied_cable, no_cable, applied_geom, no_geom) ==
    [correct_cable_lengths |-> ~applied_cable /\ ~no_cable,
     correct_geometry |-> applied_geom = "No" /\ ~no_geom]

\* main has read the metafits and the arguments, and holds the cube of
\* its one chunk.
MainInit ==
    /\ mwalib_timestep_range = [start |-> 0, end |-> MaxTimesteps]
    /\ mwalib_coarse_chan_range = [start |-> 0, end |-> MaxCoarseChans]
    /\ mwalib_baseline_indices = BaselineRun(0, metafits_num_baselines)
    /\ failing = {}
    /\ jones_array = BuiltJones(mwalib_timestep_range, mwalib_coarse_chan_range, failing)
    /\ flag_array = [cell \in DOMAIN jones_array |-> FALSE]
    /\ rx_error = <<>>
    /\ tx_error_dropped = TRUE
    /\ main_pc = "returned"
    /\ result = "Ok"
    /\ worker_ts = [k \in Workers |-> num_timesteps]
    /\ hdu_buffer = [k \in Workers |-> <<>>]
    /\ collector_pc = "done"
    /\ progress_pc = "done"
    /\ read_log = [h \in (0..(MaxTimesteps - 1)) \X (0..(MaxCoarseChans - 1)) |-> 0]
    /\ jones_writer = [cell \in DOMAIN jones_array |-> <<>>]
    /\ jones_orig = jones_array
    /\ antennas = [a \in 1..num_ants |->
                     [rfinput_x |-> (a - 1) % 2, rfinput_y |-> (a - 1) % 2]]
    /\ corr_pc = "main_options"
    /\ corr_done = {}
    /\ corr_calls = [cable |-> 0, geom |-> 0]
    /\ cable_delays_applied \in BOOLEAN
    /\ geometric_delays_applied \in GeometricDelaysApplied
    /\ no_cable_delay \in BOOLEAN
    /\ no_geometric_delay \in BOOLEAN
    /\ prep_ctx = [correct_cable_lengths |-> FALSE, correct_geometry |-> FALSE]
    /\ NoImgsets
    /\ NoFlagFiles
    /\ NoChunks

\* The correction options of main_with_args
MainOptions ==
    /\ corr_pc = "main_options"
    /\ prep_ctx' = MainCorrectionOptions(cable_delays_applied, no_cable_delay,
                                         geometric_delays_applied, no_geometric_delay)
    /\ corr_pc' = "preprocess"
    /\ UNCHANGED <<mwalib_coarse_chan_range, jones_array, bvars, jones_orig,
                   antennas, corr_done, corr_calls, cable_delays_applied,
                   geometric_delays_applied, no_cable_delay, no_geometric_delay,
                   fvars, kvars, ivars>>

\* prep_ctx.preprocess: the cable-length correction, when it is enabled
PreprocessCable ==
    /\ corr_pc = "preprocess"
    /\ prep_ctx.correct_cable_lengths
    /\ corr_pc' = "cable"
    /\ corr_done' = {}
    /\ corr_calls' = [corr_calls EXCEPT !.cable = @ + 1]
    /\ UNCHANGED <<mwalib_coarse_chan_range, jones_array, bvars, jones_orig,
                   antennas, mvars, ivars>>

PreprocessNoCable ==
    /\ corr_pc = "preprocess"
    /\ ~prep_ctx.correct_cable_lengths
    /\ corr_pc' = "cable_done"
    /\ UNCHANGED <<mwalib_coarse_chan_range, jones_array, bvars, jones_orig,
                   antennas, corr_done, corr_calls, mvars, ivars>>

\* prep_ctx.preprocess: then the geometric correction, when it is enabled
PreprocessGeometry ==
    /\ corr_pc = "cable_done"
    /\ prep_ctx.correct_geometry
    /\ corr_pc' = "geom"
    /\ corr_done' = {}
    /\ corr_calls' = [corr_calls EXCEPT !.geom = @ + 1]
    /\ UNCHANGED <<mwalib_coarse_chan_range, jones_array, bvars, jones_orig,
                   antennas, mvars, ivars>>

PreprocessNoGeometry ==
    /\ corr_pc = "cable_done"
    /\ ~prep_ctx.correct_geometry
    /\ corr_pc' = "geom_done"
    /\ UNCHANGED <<mwalib_coarse_chan_range, jones_array, bvars, jones_orig,
                   antennas, corr_done, corr_calls, mvars, ivars>>

MainNext ==
    \/ MainOptions
    \/ PreprocessCable
    \/ PreprocessNoCable
    \/ \E bl \in 0..(metafits_num_baselines - 1) : CableBaseline(bl)
    \/ CableFinish
    \/ PreprocessGeometry
    \/ PreprocessNoGeometry
    \/ \E t \in 0..(MaxTimesteps - 1) : GeomTimestep(t)
    \/ GeomFinish

SpecMain == MainInit /\ [][MainNext]_vars

\* C16: the cable-length correction is enabled iff the metafits says cable
\* delays were not applied and --no-cable-delay is absent, the geometric
\* correction iff the metafits says geometric delays applied is No and
\* --no-geometric-delay is absent; a correction runs only when it is
\* enabled, at most once, and never when the metafits reports it applied.
C16_EnabledIffWantedAndNotApplied ==
    LET cable == ~cable_delays_applied /\ ~no_cable_delay
        geom == geometric_delays_applied = "No" /\ ~no_geometric_delay
    IN  /\ corr_pc # "main_options" =>
              /\ prep_ctx.correct_cable_lengths <=> cable
              /\ prep_ctx.correct_geometry <=> geom
        /\ corr_calls.cable > 0 => (cable /\ corr_calls.cable = 1)
        /\ corr_calls.geom > 0 => (geom /\ corr_calls.geom = 1)
        /\ cable_delays_applied => corr_calls.cable = 0
        /\ geometric_delays_applied # "No" => corr_calls.geom = 0
        /\ corr_pc = "geom_done" =>
              /\ corr_calls.cable = 1 <=> cable
              /\ corr_calls.geom = 1 <=> geom
              /\ \A cell \in DOMAIN jones_array : \A pol \in Pols :
                    TurnsOf(cell, pol)
                        = {((IF cable /\ ~IsAuto(cell[3])
                             THEN CableTurns(cell, pol) ELSE 0)
                            + (IF geom THEN GeomTurns(cell) ELSE 0)) % 4}

\* the pipeline is over; the cable delays were applied upstream and the
\* correction was not switched off, so only the geometric correction ran
C16_Witness ==
    /\ corr_pc = "geom_done"
    /\ cable_delays_applied /\ ~no_cable_delay
    /\ corr_calls = [cable |-> 0, geom |-> 1]
    /\ jones_array # jones_orig

\* ------------------------------------------------------------------------
\* context_to_baseline_imgsets
\* ------------------------------------------------------------------------
\* The visibility polarisations of the observation: two components each
MaxImgPols == 1
\* The (HDU, polarisation) pairs of one call
MaxImgSends == 2

num_img_coarse_chans == Len(img_coarse_chan_idxs)
num_img_timesteps == Len(img_timestep_idxs)
num_producers == num_img_coarse_chans
num_pols_complex == img_visibility_pols * 2
floats_per_finechan == img_visibility_pols * 2
img_floats_per_baseline == num_corr_fine_chans_per_coarse * floats_per_finechan

Producers == 0..(num_producers - 1)
Components == 0..(num_pols_complex - 1)

\* MakeImageSet(width, height, 8, 0 as f32, width): the image buffers of a
\* baseline, those of the components of the observation
img_width == num_img_timesteps
img_height == num_img_coarse_chans * num_corr_fine_chans_per_coarse
HorizontalStride == img_width

\* The float the correlator recorded at offset i of the HDU (ts, cc) of
\* this observation: every one is distinct and none is zero.
ImgHduFloat(ts, cc, i) ==
    1 + i + (metafits_num_baselines * img_floats_per_baseline)
              * (cc + MaxCoarseChans * ts)

\* context.read_by_baseline: the buffer of an HDU that can be read
read_by_baseline(timestep_idx, coarse_chan_idx) ==
    [i \in 1..(metafits_num_baselines * img_floats_per_baseline) |->
        ImgHduFloat(timestep_idx, coarse_chan_idx, i - 1)]

\* MakeImageSet(width, height, 8, ...): the image buffers of an imgset
ImageCount == 8

\* init_baseline_imgsets
init_baseline_imgsets ==
    [key \in (0..(metafits_num_baselines - 1)) \X (0..(ImageCount - 1)) |->
        [i \in 1..(img_height * HorizontalStride) |-> 0]]

\* The index lists a caller passes: the last indices of the observation,
\* none included.
IdxLists(n) == {BaselineRun(s, n) : s \in 0..n}

\* Mutant: the loop over the timesteps takes every other timestep.
NextTimestepSkips(pr) ==
    IF pr.ts + 2 < num_img_timesteps
    THEN [pr EXCEPT !.pc = "read", !.ts = @ + 2, !.q = 0]
    ELSE [pc |-> "next", cc |-> 0, ts |-> 0, q |-> 0]

\* The thread of a producer when it leaves an iteration of its loop over
\* the timesteps: the next timestep, or the next coarse channel (the loop
\* variables are out of scope then; "next" is the head of the loop over the
\* coarse channels after its first iteration)
NextTimestep(pr) ==
    IF pr.ts + 1 < num_img_timesteps
    THEN [pr EXCEPT !.pc = "read", !.ts = @ + 1, !.q = 0]
    ELSE [pc |-> "next", cc |-> 0, ts |-> 0, q |-> 0]

\* Every producer has left its loop and dropped its send sides.
ProducersDone == \A p \in Producers : producer[p].pc = "done"

ImgInit ==
    /\ img_visibility_pols \in 1..MaxImgPols
    /\ img_coarse_chan_idxs \in IdxLists(MaxCoarseChans)
    /\ img_timestep_idxs \in IdxLists(MaxTimesteps)
    /\ img_visibility_pols * num_img_coarse_chans * num_img_timesteps <= MaxImgSends
    /\ masks_given \in BOOLEAN
    /\ img_failing = {}
    /\ img_read_log = [c \in 0..(num_img_coarse_chans - 1) |-> <<>>]
    /\ img_pc = "call"
    /\ job_queue = <<>>
    /\ producer = [p \in Producers |-> [pc |-> "unspawned", cc |-> 0, ts |-> 0, q |-> 0]]
    /\ pol_img_queues = [q \in Components |-> <<>>]
    /\ img_rx_error = <<>>
    /\ consumer_pc = [q \in Components |-> "unspawned"]
    /\ img_collector_pc = "unspawned"
    /\ img_progress_pc = "unspawned"
    /\ baseline_imgsets = init_baseline_imgsets
    /\ imgset_writers =
          [key \in DOMAIN baseline_imgsets |->
              [i \in 1..(img_height * HorizontalStride) |-> <<>>]]
    /\ baseline_flagmasks =
          IF masks_given
          THEN [b \in 0..(metafits_num_baselines - 1) |->
                  [i \in 1..(img_height * HorizontalStride) |-> FALSE]]
          ELSE <<>>
    /\ mwalib_timestep_range = [start |-> 0, end |-> 0]
    /\ mwalib_coarse_chan_range = [start |-> 0, end |-> 0]
    /\ mwalib_baseline_indices = <<>>
    /\ failing = {}
    /\ jones_array = <<>>
    /\ flag_array = <<>>
    /\ rx_error = <<>>
    /\ tx_error_dropped = FALSE
    /\ main_pc = "off"
    /\ result = "none"
    /\ worker_ts = <<>>
    /\ hdu_buffer = <<>>
    /\ collector_pc = "off"
    /\ progress_pc = "off"
    /\ read_log = <<>>
    /\ jones_writer = <<>>
    /\ jones_orig = <<>>
    /\ antennas = <<>>
    /\ corr_pc = "off"
    /\ corr_done = {}
    /\ corr_calls = [cable |-> 0, geom |-> 0]
    /\ cable_delays_applied = FALSE
    /\ geometric_delays_applied = "No"
    /\ no_cable_delay = FALSE
    /\ no_geometric_delay = FALSE
    /\ prep_ctx = [correct_cable_lengths |-> FALSE, correct_geometry |-> FALSE]
    /\ NoFlagFiles
    /\ NoChunks

\* Neither the corrections nor the command line are involved.
NoCorrectionOrMain ==
    /\ jones_orig = <<>>
    /\ antennas = <<>>
    /\ corr_pc = "off"
    /\ corr_done = {}
    /\ corr_calls = [cable |-> 0, geom |-> 0]
    /\ cable_delays_applied = FALSE
    /\ geometric_delays_applied = "No"
    /\ no_cable_delay = FALSE
    /\ no_geometric_delay = FALSE
    /\ prep_ctx = [correct_cable_lengths |-> FALSE, correct_geometry |-> FALSE]
    /\ NoFlagFiles
    /\ NoChunks

\* The variables of the other functions
ovars == <<mwalib_coarse_chan_range, jones_array, bvars, jones_orig, antennas,
           corr_pc, corr_done, corr_calls, mvars>>

\* The arguments of the call
iargs == <<img_visibility_pols, img_coarse_chan_idxs, img_timestep_idxs, masks_given>>

\* thread::scope: the calling thread spawns the progress thread, queues
\* the coarse channels and drops the send side of that queue, spawns the
\* producers, the error consumer and the consumers, dropping its own send
\* sides, and finishes the total bar.
ImgEnterScope ==
    /\ img_pc = "call"
    /\ img_pc' = "scope"
    /\ img_progress_pc' = "join"
    /\ job_queue' = [i \in 1..num_img_coarse_chans |-> i - 1]
    /\ producer' = [p \in Producers |-> [pc |-> "recv", cc |-> 0, ts |-> 0, q |-> 0]]
    /\ img_collector_pc' = "recv"
    /\ consumer_pc' = [q \in Components |-> "recv"]
    /\ UNCHANGED <<iargs, img_failing, img_read_log, pol_img_queues, img_rx_error,
                   baseline_imgsets, imgset_writers, baseline_flagmasks, ovars>>

\* Mutant: a producer reads the head of the queue and leaves it there.
ProducerRecvPeeks(p) ==
    /\ p \in Producers
    /\ producer[p].pc \in {"recv", "next"}
    /\ IF job_queue # <<>>
       THEN /\ UNCHANGED job_queue
            /\ producer' = [producer EXCEPT ![p] =
                              IF num_img_timesteps > 0
                              THEN [pc |-> "read", cc |-> Head(job_queue),
                                    ts |-> 0, q |-> 0]
                              ELSE [pc |-> "next", cc |-> 0, ts |-> 0, q |-> 0]]
       ELSE /\ producer' = [producer EXCEPT ![p].pc = "done"]
            /\ UNCHANGED job_queue
    /\ UNCHANGED <<iargs, img_failing, img_read_log, img_pc, pol_img_queues, img_rx_error,
                   consumer_pc, img_collector_pc, img_progress_pc,
                   baseline_imgsets, imgset_writers, baseline_flagmasks, ovars>>

\* Mutant: a producer that finds the queue of coarse channels empty leaves
\* without dropping its send sides.
ProducerRecvKeepsSenders(p) ==
    /\ p \in Producers
    /\ producer[p].pc \in {"recv", "next"}
    /\ IF job_queue # <<>>
       THEN /\ job_queue' = Tail(job_queue)
            /\ producer' = [producer EXCEPT ![p] =
                              IF num_img_timesteps > 0
                              THEN [pc |-> "read", cc |-> Head(job_queue),
                                    ts |-> 0, q |-> 0]
                              ELSE [pc |-> "next", cc |-> 0, ts |-> 0, q |-> 0]]
       ELSE /\ producer' = [producer EXCEPT ![p].pc = "leaked"]
            /\ UNCHANGED job_queue
    /\ UNCHANGED <<iargs, img_failing, img_read_log, img_pc, pol_img_queues, img_rx_error,
                   consumer_pc, img_collector_pc, img_progress_pc,
                   baseline_imgsets, imgset_writers, baseline_flagmasks, ovars>>

\* for img_coarse_chan_idx in rx_img_coarse_chan_idx_worker.iter(): the
\* producer takes the next coarse channel, or leaves the loop when the
\* queue is empty and drops its send sides.
ProducerRecv(p) ==
    /\ p \in Producers
    /\ producer[p].pc \in {"recv", "next"}
    /\ IF job_queue # <<>>
       THEN /\ job_queue' = Tail(job_queue)
            /\ producer' = [producer EXCEPT ![p] =
                              IF num_img_timesteps > 0
                              THEN [pc |-> "read", cc |-> Head(job_queue),
                                    ts |-> 0, q |-> 0]
                              ELSE [pc |-> "next", cc |-> 0, ts |-> 0, q |-> 0]]
       ELSE /\ producer' = [producer EXCEPT ![p].pc = "done"]
            /\ UNCHANGED job_queue
    /\ UNCHANGED <<iargs, img_failing, img_read_log, img_pc, pol_img_queues, img_rx_error,
                   consumer_pc, img_collector_pc, img_progress_pc,
                   baseline_imgsets, imgset_writers, baseline_flagmasks, ovars>>

\* match context.read_by_baseline(timestep_idx, coarse_chan_idx): on Err
\* the producer reports (img_coarse_chan_idx, img_timestep_idx) and goes on.
ProducerRead(p, readable) ==
    /\ p \in Producers
    /\ producer[p].pc = "read"
    /\ ~readable => Cardinality(img_failing) < MaxFailures
    /\ IF readable
       THEN /\ producer' = [producer EXCEPT ![p].pc = "send", ![p].q = 0]
            /\ UNCHANGED <<img_failing, img_rx_error>>
       ELSE /\ producer' = [producer EXCEPT ![p] = NextTimestep(@)]
            /\ img_rx_error' = Append(img_rx_error, <<producer[p].cc, producer[p].ts>>)
            /\ img_failing' = img_failing \cup {<<producer[p].cc, producer[p].ts>>}
    /\ img_read_log' = [img_read_log EXCEPT ![producer[p].cc] = Append(@, producer[p].ts)]
    /\ UNCHANGED <<iargs, img_pc, job_queue, pol_img_queues,
                   consumer_pc, img_collector_pc, img_progress_pc,
                   baseline_imgsets, imgset_writers, baseline_flagmasks, ovars>>

\* tx_img.send((img_coarse_chan_idx, img_timestep_idx, img_buf_arc)) on the
\* next queue, of capacity num_producers; the buffer is immutable and the
\* queue carries its identity.
\* Mutant: the buffer goes to the queue of the first component only.
ProducerSendFirstQueueOnly(p) ==
    /\ p \in Producers
    /\ producer[p].pc = "send"
    /\ Len(pol_img_queues[producer[p].q]) < num_producers
    /\ pol_img_queues' = [pol_img_queues EXCEPT ![producer[p].q] =
                            Append(@, <<producer[p].cc, producer[p].ts>>)]
    /\ producer' = [producer EXCEPT ![p] = NextTimestep(@)]
    /\ UNCHANGED <<iargs, img_failing, img_read_log, img_pc, job_queue, img_rx_error,
                   consumer_pc, img_collector_pc, img_progress_pc,
                   baseline_imgsets, imgset_writers, baseline_flagmasks, ovars>>

ProducerSend(p) ==
    /\ p \in Producers
    /\ producer[p].pc = "send"
    /\ Len(pol_img_queues[producer[p].q]) < num_producers
    /\ pol_img_queues' = [pol_img_queues EXCEPT ![producer[p].q] =
                            Append(@, <<producer[p].cc, producer[p].ts>>)]
    /\ producer' = [producer EXCEPT ![p] =
                      IF @.q + 1 < num_pols_complex
                      THEN [@ EXCEPT !.q = @ + 1]
                      ELSE NextTimestep(@)]
    /\ UNCHANGED <<iargs, img_failing, img_read_log, img_pc, job_queue, img_rx_error,
                   consumer_pc, img_collector_pc, img_progress_pc,
                   baseline_imgsets, imgset_writers, baseline_flagmasks, ovars>>

\* Mutant: the row of a float leaves out the coarse channel.
WriteIdxNoCoarseChan(img_coarse_chan_idx, fine_chan_idx, img_timestep_idx) ==
    fine_chan_idx * HorizontalStride + img_timestep_idx

\* img_y * img_stride + img_x
WriteIdx(img_coarse_chan_idx, fine_chan_idx, img_timestep_idx) ==
    (num_corr_fine_chans_per_coarse * img_coarse_chan_idx + fine_chan_idx)
        * HorizontalStride + img_timestep_idx

\* Mutant: the imaginary part goes into the buffer of the real part.
ImageBufferMutUnsafeOfReal(pol_idx) == 2 * (pol_idx \div 2)

\* imgset.ImageBufferMutUnsafe(pol_idx): the buffer of a component
ImageBufferMutUnsafe(pol_idx) == pol_idx

\* The fine channels of a coarse channel
FineChans == 0..(num_corr_fine_chans_per_coarse - 1)

\* Mutant: every imgset gets the chunk of the first baseline.
ConsumeFirstBaselineChunk(imgset_buf, img_buf, b, pol_idx, img_cc_idx, img_ts_idx) ==
    [i \in 1..Len(imgset_buf) |->
        IF \E f \in FineChans : WriteIdx(img_cc_idx, f, img_ts_idx) = i - 1
        THEN LET fine_chan_idx ==
                   CHOOSE f \in FineChans : WriteIdx(img_cc_idx, f, img_ts_idx) = i - 1
             IN  img_buf[fine_chan_idx * floats_per_finechan + pol_idx + 1]
        ELSE imgset_buf[i]]

\* The body of the consumer of pol_idx for the chunk of baseline b of the
\* buffer img_buf of (img_coarse_chan_idx, img_timestep_idx): the image
\* buffer afterwards
ConsumeBaselineChunk(imgset_buf, img_buf, b, pol_idx, img_cc_idx, img_ts_idx) ==
    [i \in 1..Len(imgset_buf) |->
        IF \E f \in FineChans : WriteIdx(img_cc_idx, f, img_ts_idx) = i - 1
        THEN LET fine_chan_idx ==
                   CHOOSE f \in FineChans : WriteIdx(img_cc_idx, f, img_ts_idx) = i - 1
             IN  img_buf[b * img_floats_per_baseline
                           + fine_chan_idx * floats_per_finechan + pol_idx + 1]
        ELSE imgset_buf[i]]

\* for (img_coarse_chan_idx, img_timestep_idx, img_buf) in rx_img_worker.iter():
\* the consumer of pol_idx takes one buffer off its queue and copies its
\* component into the image buffers.
ConsumerRecv(pol_idx) ==
    /\ pol_idx \in Components
    /\ consumer_pc[pol_idx] = "recv"
    /\ pol_img_queues[pol_idx] # <<>>
    /\ LET img_coarse_chan_idx == Head(pol_img_queues[pol_idx])[1]
           img_timestep_idx == Head(pol_img_queues[pol_idx])[2]
           img_buf == read_by_baseline(img_timestep_idxs[img_timestep_idx + 1],
                                       img_coarse_chan_idxs[img_coarse_chan_idx + 1])
           buffer == ImageBufferMutUnsafe(pol_idx)
       IN  /\ baseline_imgsets' =
                 [key \in DOMAIN baseline_imgsets |->
                     IF key[2] = buffer
                     THEN ConsumeBaselineChunk(baseline_imgsets[key], img_buf, key[1],
                                               pol_idx, img_coarse_chan_idx,
                                               img_timestep_idx)
                     ELSE baseline_imgsets[key]]
           /\ imgset_writers' =
                 [key \in DOMAIN imgset_writers |->
                     IF key[2] = buffer
                     THEN [i \in 1..Len(imgset_writers[key]) |->
                             IF \E f \in FineChans :
                                   WriteIdx(img_coarse_chan_idx, f, img_timestep_idx)
                                       = i - 1
                             THEN Append(imgset_writers[key][i], pol_idx)
                             ELSE imgset_writers[key][i]]
                     ELSE imgset_writers[key]]
    /\ pol_img_queues' = [pol_img_queues EXCEPT ![pol_idx] = Tail(@)]
    /\ UNCHANGED <<iargs, img_failing, img_read_log, img_pc, job_queue, producer, img_rx_error,
                   consumer_pc, img_collector_pc, img_progress_pc,
                   baseline_flagmasks, ovars>>

\* The queue is empty and every send side is dropped: the consumer leaves
\* its loop and finishes its bar.
ConsumerExit(pol_idx) ==
    /\ pol_idx \in Components
    /\ consumer_pc[pol_idx] = "recv"
    /\ pol_img_queues[pol_idx] = <<>>
    /\ ProducersDone
    /\ consumer_pc' = [consumer_pc EXCEPT ![pol_idx] = "done"]
    /\ UNCHANGED <<iargs, img_failing, img_read_log, img_pc, job_queue, producer, pol_img_queues,
                   img_rx_error, img_collector_pc, img_progress_pc,
                   baseline_imgsets, imgset_writers, baseline_flagmasks, ovars>>

\* Mutant: only the first fine channel of the coarse channel is flagged.
FlagIdxFirstFineChan(img_coarse_chan_idx, fine_chan, img_timestep_idx) ==
    (num_corr_fine_chans_per_coarse * img_coarse_chan_idx) * HorizontalStride
        + img_timestep_idx

\* freq_idx * flag_stride + img_timestep_idx
FlagIdx(img_coarse_chan_idx, fine_chan, img_timestep_idx) ==
    (num_corr_fine_chans_per_coarse * img_coarse_chan_idx + fine_chan)
        * HorizontalStride + img_timestep_idx

\* Mutant: the error consumer writes the whole mask, false outside the HDU.
ImgCollectorRecvOverwrites ==
    /\ img_collector_pc = "recv"
    /\ img_rx_error # <<>>
    /\ LET img_coarse_chan_idx == Head(img_rx_error)[1]
           img_timestep_idx == Head(img_rx_error)[2]
       IN  baseline_flagmasks' =
             [b \in DOMAIN baseline_flagmasks |->
                 [i \in 1..Len(baseline_flagmasks[b]) |->
                     \E fine_chan \in FineChans :
                         FlagIdx(img_coarse_chan_idx, fine_chan, img_timestep_idx)
                             = i - 1]]
    /\ img_rx_error' = Tail(img_rx_error)
    /\ UNCHANGED <<iargs, img_failing, img_read_log, img_pc, job_queue, producer, pol_img_queues,
                   consumer_pc, img_collector_pc, img_progress_pc,
                   baseline_imgsets, imgset_writers, ovars>>

\* for (img_coarse_chan_idx, img_timestep_idx, err) in rx_error.iter():
\* the error consumer flags the HDU in every mask there is.
ImgCollectorRecv ==
    /\ img_collector_pc = "recv"
    /\ img_rx_error # <<>>
    /\ LET img_coarse_chan_idx == Head(img_rx_error)[1]
           img_timestep_idx == Head(img_rx_error)[2]
       IN  baseline_flagmasks' =
             [b \in DOMAIN baseline_flagmasks |->
                 [i \in 1..Len(baseline_flagmasks[b]) |->
                     IF \E fine_chan \in FineChans :
                           FlagIdx(img_coarse_chan_idx, fine_chan, img_timestep_idx)
                               = i - 1
                     THEN TRUE
                     ELSE baseline_flagmasks[b][i]]]
    /\ img_rx_error' = Tail(img_rx_error)
    /\ UNCHANGED <<iargs, img_failing, img_read_log, img_pc, job_queue, producer, pol_img_queues,
                   consumer_pc, img_collector_pc, img_progress_pc,
                   baseline_imgsets, imgset_writers, ovars>>

\* The error queue is empty and every send side is dropped.
ImgCollectorExit ==
    /\ img_collector_pc = "recv"
    /\ img_rx_error = <<>>
    /\ ProducersDone
    /\ img_collector_pc' = "done"
    /\ UNCHANGED <<iargs, img_failing, img_read_log, img_pc, job_queue, producer, pol_img_queues,
                   img_rx_error, consumer_pc, img_progress_pc,
                   baseline_imgsets, imgset_writers, baseline_flagmasks, ovars>>

\* multi_progress.join() returns once every bar is finished: those of the
\* coarse channels, those of the components and the total bar.
ImgProgressJoin ==
    /\ img_progress_pc = "join"
    /\ ProducersDone
    /\ \A q \in Components : consumer_pc[q] = "done"
    /\ img_progress_pc' = "done"
    /\ UNCHANGED <<iargs, img_failing, img_read_log, img_pc, job_queue, producer, pol_img_queues,
                   img_rx_error, consumer_pc, img_collector_pc,
                   baseline_imgsets, imgset_writers, baseline_flagmasks, ovars>>

\* The scope joins its threads and the call returns the imgsets.
ImgScopeJoin ==
    /\ img_pc = "scope"
    /\ ProducersDone
    /\ \A q \in Components : consumer_pc[q] = "done"
    /\ img_collector_pc = "done"
    /\ img_progress_pc = "done"
    /\ img_pc' = "returned"
    /\ UNCHANGED <<iargs, img_failing, img_read_log, job_queue, producer, pol_img_queues,
                   img_rx_error, consumer_pc, img_collector_pc, img_progress_pc,
                   baseline_imgsets, imgset_writers, baseline_flagmasks, ovars>>

ImgNext ==
    \/ ImgEnterScope
    \/ \E p \in Producers : ProducerRecv(p)
    \/ \E p \in Producers, readable \in BOOLEAN : ProducerRead(p, readable)
    \/ \E p \in Producers : ProducerSend(p)
    \/ \E pol_idx \in Components : ConsumerRecv(pol_idx)
    \/ \E pol_idx \in Components : ConsumerExit(pol_idx)
    \/ ImgCollectorRecv
    \/ ImgCollectorExit
    \/ ImgProgressJoin
    \/ ImgScopeJoin

SpecImg == ImgInit /\ [][ImgNext]_vars

\* Every thread of the call is an OS thread: while one of them can take a
\* step, a step is eventually taken.
LiveSpecImg == SpecImg /\ WF_vars(ImgNext)

\* ---------------------------------------------------------------------
\* Properties of context_to_baseline_imgsets
\* ---------------------------------------------------------------------

\* The HDUs of the call, by their position in the index lists
ImgHdus == (0..(num_img_coarse_chans - 1)) \X (0..(num_img_timesteps - 1))

\* The cell (row, column) of image buffer p of the imgset of baseline b
ImgCell(b, p, row, column) ==
    baseline_imgsets[<<b, p>>][row * img_width + column + 1]

\* The buffer read_by_baseline gives for the HDU at (cc, ts) of the lists
HduBufferAt(cc, ts) ==
    read_by_baseline(img_timestep_idxs[ts + 1], img_coarse_chan_idxs[cc + 1])

\* C17: when the call has returned, for every HDU (cc, ts) of the index
\* lists, every baseline b, fine channel fc and component p, the cell at
\* row fine_per_coarse*cc + fc and column ts of image buffer p of imgset b
\* holds the float at offset b*floats_per_baseline + fc*floats_per_finechan
\* + p of the buffer of the HDU if its read succeeded, and 0 if it failed.
C17_ImgsetLayout ==
    img_pc = "returned" =>
        \A hdu \in ImgHdus, b \in 0..(metafits_num_baselines - 1),
           fc \in FineChans, p \in Components :
            ImgCell(b, p, num_corr_fine_chans_per_coarse * hdu[1] + fc, hdu[2]) =
                IF hdu \in img_failing
                THEN 0
                ELSE HduBufferAt(hdu[1], hdu[2])
                        [b * img_floats_per_baseline + fc * floats_per_finechan + p + 1]

\* A returned call of two HDUs: that of the second coarse channel or
\* timestep was read, the other one failed.
C17_Witness ==
    /\ img_pc = "returned"
    /\ \E hdu \in ImgHdus :
          /\ hdu[1] + hdu[2] > 0
          /\ hdu \notin img_failing
          /\ ImgCell(metafits_num_baselines - 1, num_pols_complex - 1,
                     num_corr_fine_chans_per_coarse * hdu[1]
                         + num_corr_fine_chans_per_coarse - 1, hdu[2]) # 0
    /\ img_failing # {}

\* Who wrote the cell (row, column) of image buffer p of imgset b
ImgCellWriters(b, p, row, column) ==
    imgset_writers[<<b, p>>][row * img_width + column + 1]

\* C18: at every moment, when masks were given, a cell of a mask is set
\* only if it lies in the column and the fine channel rows of an HDU whose
\* read failed, and once the call has returned every such cell of every
\* baseline's mask is set; a call without masks whose read failed still
\* returns.
C18_MasksOfFailedReads ==
    /\ [](masks_given =>
            \A hdu \in ImgHdus, b \in DOMAIN baseline_flagmasks, fc \in FineChans :
                LET flag == baseline_flagmasks[b]
                              [(num_corr_fine_chans_per_coarse * hdu[1] + fc) * img_width
                                  + hdu[2] + 1]
                IN  /\ flag => hdu \in img_failing
                    /\ (img_pc = "returned" /\ hdu \in img_failing) => flag)
    /\ ((~masks_given /\ img_failing # {}) ~> (img_pc = "returned"))

\* A returned call with masks, one HDU failed and one read, more than one
\* baseline and fine channel
C18_Witness ==
    /\ img_pc = "returned"
    /\ masks_given
    /\ img_failing # {}
    /\ img_failing # ImgHdus
    /\ \E b \in DOMAIN baseline_flagmasks :
          \E i, j \in DOMAIN baseline_flagmasks[b] :
              baseline_flagmasks[b][i] /\ ~baseline_flagmasks[b][j]

\* C19: at every moment, every cell of image buffer p of every imgset was
\* written by the consumer of p only, and at most once.
C19_OneWriterOneWrite ==
    \A key \in DOMAIN imgset_writers :
        \A i \in DOMAIN imgset_writers[key] :
            /\ Len(imgset_writers[key][i]) <= 1
            /\ \A w \in DOMAIN imgset_writers[key][i] :
                  imgset_writers[key][i][w] = key[2]

\* Two consumers have written their buffers of the same imgset, in two
\* columns or coarse channels.
C19_Witness ==
    /\ \E b \in 0..(metafits_num_baselines - 1) :
          \A p \in Components :
              \E i \in DOMAIN imgset_writers[<<b, p>>] :
                  imgset_writers[<<b, p>>][i] = <<p>>
    /\ num_pols_complex > 1
    /\ \E hdu \in ImgHdus :
          /\ hdu[1] + hdu[2] > 0
          /\ ImgCellWriters(0, 1, num_corr_fine_chans_per_coarse * hdu[1], hdu[2]) = <<1>>

\* A producer waits to send on a component queue that is full.
ProducerBlocked ==
    \E p \in Producers :
        /\ producer[p].pc = "send"
        /\ Len(pol_img_queues[producer[p].q]) = num_producers

\* Every thread of the call has left.
ImgThreadsExited ==
    /\ \A q \in Components : consumer_pc[q] = "done"
    /\ img_collector_pc = "done"

\* C20: every call returns, and it returns only when every producer has
\* dropped its send sides and the consumers of the components and of the
\* errors have left; whenever a producer is blocked on a full component
\* queue the consumer of that queue is in its loop with a buffer to take,
\* which releases the producer; a consumer leaves only once every producer
\* has dropped its send sides.
C20_Terminates ==
    /\ <>(img_pc = "returned")
    /\ [](/\ img_pc = "returned" => (ProducersDone /\ ImgThreadsExited)
          /\ \A p \in Producers :
                (producer[p].pc = "send"
                   /\ Len(pol_img_queues[producer[p].q]) = num_producers)
                    => /\ consumer_pc[producer[p].q] = "recv"
                       /\ pol_img_queues[producer[p].q] # <<>>
          /\ \A q \in Components :
                consumer_pc[q] = "done" => (ProducersDone /\ pol_img_queues[q] = <<>>)
          /\ img_collector_pc = "done" => (ProducersDone /\ img_rx_error = <<>>))

\* A producer of a running call is blocked on a full queue.
C20_Witness ==
    /\ ProducerBlocked
    /\ img_pc = "scope"

\* The producers that are working on a coarse channel
Reading == {p \in Producers : producer[p].pc \in {"read", "send"}}

\* The img timesteps of a call, in order
AllImgTimesteps == [i \in 1..num_img_timesteps |-> i - 1]

\* C30 as stated: every reader processes exactly one coarse channel. In a
\* call with timesteps, a coarse channel leaves the queue only into the
\* hands of a reader that has had none so far, and no reader leaves before
\* it has had one.
C30_OneChannelPerReader ==
    [][(img_pc = "scope" /\ num_img_timesteps > 0) =>
          /\ job_queue' # job_queue =>
                \E p \in Producers :
                    producer[p].pc = "recv" /\ producer'[p].pc = "read"
          /\ \A p \in Producers :
                ~(producer[p].pc = "recv" /\ producer'[p].pc = "done")]_vars

\* C30 as amended: every coarse channel is processed by exactly one reader,
\* which reads all its timesteps; a reader works on one coarse channel at
\* a time and may process several, or none. No two readers work on the same
\* coarse channel, no coarse channel a reader works on or has finished is
\* still queued, a reader leaves a coarse channel only when all its
\* timesteps are read, and on return every timestep of every coarse channel
\* has been read once.
C30_OneReaderPerChannel ==
    /\ [](/\ \A p1, p2 \in Reading :
                producer[p1].cc = producer[p2].cc => p1 = p2
          /\ \A i \in 1..Len(job_queue) :
                /\ img_read_log[job_queue[i]] = <<>>
                /\ \A p \in Reading : producer[p].cc # job_queue[i]
          /\ img_pc = "returned" =>
                \A c \in DOMAIN img_read_log : img_read_log[c] = AllImgTimesteps)
    /\ [][\A p \in Reading :
             producer'[p].pc \in {"next", "done"} =>
                 img_read_log'[producer[p].cc] = AllImgTimesteps]_vars

\* One reader has finished the first coarse channel and reads the second
\* one; another reader has had no coarse channel and the queue is empty.
C30_Witness ==
    /\ job_queue = <<>>
    /\ num_img_timesteps >= 1
    /\ \E p1, p2 \in Producers :
          /\ producer[p1].pc = "read"
          /\ producer[p1].cc = 1
          /\ img_read_log[0] = AllImgTimesteps
          /\ producer[p2].pc = "recv"
          /\ \A p \in Producers \ {p1, p2} : producer[p].pc = "recv"

\* How often a value occurs in a sequence
Occurrences(seq, value) == Cardinality({i \in 1..Len(seq) : seq[i] = value})

\* C31: every selected coarse channel index is queued once and leaves the
\* queue into the hands of exactly one reader, which starts it at its first
\* timestep; a read is that of a timestep the coarse channel has not had
\* read before, and when the call has returned the queue is empty and the
\* HDU of every (timestep, coarse channel) pair has been read exactly once.
C31_EveryHduReadOnce ==
    /\ [](/\ img_pc = "scope" =>
                \A c \in 0..(num_img_coarse_chans - 1) :
                    Occurrences(job_queue, c) <= 1
          /\ img_pc = "returned" =>
                /\ job_queue = <<>>
                /\ \A hdu \in ImgHdus :
                      Occurrences(img_read_log[hdu[1]], hdu[2]) = 1)
    /\ [][(img_pc = "scope" /\ job_queue' # job_queue) =>
             /\ job_queue # <<>>
             /\ job_queue' = Tail(job_queue)
             /\ Cardinality({p \in Producers : producer'[p] # producer[p]}) <= 1
             /\ num_img_timesteps > 0 =>
                   \E p \in Producers :
                       /\ producer[p].pc \in {"recv", "next"}
                       /\ producer'[p] = [pc |-> "read", cc |-> Head(job_queue),
                                          ts |-> 0, q |-> 0]]_vars
    /\ [][\A c \in DOMAIN img_read_log :
             img_read_log'[c] # img_read_log[c] =>
                 /\ Occurrences(job_queue, c) = 0
                 /\ \E ts \in 0..(num_img_timesteps - 1) :
                       /\ Occurrences(img_read_log[c], ts) = 0
                       /\ img_read_log'[c] = Append(img_read_log[c], ts)]_vars

\* The call has returned; two coarse channels have been read, both by the
\* same reader or each by its own, and one read has failed.
C31_Witness ==
    /\ img_pc = "returned"
    /\ num_img_coarse_chans >= 2
    /\ num_img_timesteps >= 1
    /\ img_failing # {}
    /\ \A c \in DOMAIN img_read_log : Len(img_read_log[c]) = num_img_timesteps

\* How often the consumer of component p has processed the buffer of an
\* HDU: the writes of the first cell of the HDU in buffer p
Processed(p, hdu) ==
    Len(ImgCellWriters(0, p, num_corr_fine_chans_per_coarse * hdu[1], hdu[2]))

\* The HDUs the consumer of component p has processed
ProcessedBy(p) == {hdu \in ImgHdus : Processed(p, hdu) > 0}

\* C32: at every moment, what waits in the queue of a component is tagged
\* with the indices of an HDU of the selection; the buffer of an HDU is in
\* the queue of a component or processed by its consumer at most once, and
\* never when its read failed; when the call has returned the consumer of
\* every component has processed every HDU that was read exactly once and
\* no other, so all consumers have processed the same set.
C32_DeliveredToEveryConsumerOnce ==
    \A p \in Components :
        /\ \A i \in DOMAIN pol_img_queues[p] : pol_img_queues[p][i] \in ImgHdus
        /\ \A hdu \in ImgHdus :
              LET sent == Occurrences(pol_img_queues[p], hdu) + Processed(p, hdu)
              IN  /\ sent <= 1
                  /\ hdu \in img_failing => sent = 0
                  /\ Occurrences(img_read_log[hdu[1]], hdu[2]) = 0 => sent = 0
        /\ img_pc = "returned" =>
              /\ pol_img_queues[p] = <<>>
              /\ ProcessedBy(p) = ImgHdus \ img_failing
              /\ \A q \in Components : ProcessedBy(q) = ProcessedBy(p)

\* A returned call of two HDUs, one read and one failed, with more than
\* one component
C32_Witness ==
    /\ img_pc = "returned"
    /\ num_pols_complex > 1
    /\ img_failing # {}
    /\ \E hdu \in ImgHdus : \A p \in Components : Processed(p, hdu) = 1

\* ---------------------------------------------------------------------
\* The two builders
\* ---------------------------------------------------------------------
\* A call of context_to_jones_array or a call of context_to_baseline_imgsets
BuildersNext ==
    \/ Next
    \/ ImgNext

SpecBuilders == (Init \/ ImgInit) /\ [][BuildersNext]_vars

\* The entries of a sequence of (timestep, coarse channel) reports are in
\* ascending timestep order within each coarse channel.
AscendingPerChan(reports, chan, timestep) ==
    \A i, j \in 1..Len(reports) :
        (i < j /\ reports[i][chan] = reports[j][chan])
            => reports[i][timestep] < reports[j][timestep]

\* The read, the write or the report of this step of context_to_jones_array
\* is that of HDU h.
StepOfHdu(h) ==
    \/ read_log'[h] # read_log[h]
    \/ h \in failing' \ failing
    \/ \E cell \in Extent(h) : jones_writer'[cell] # jones_writer[cell]

MaxTemplateLen == 4
\* The most gpubox ids a caller passes
MaxGpuboxIds == 2

\* The bits of a byte of a FITS bit column
BitsPerByte == 8

\* mwalib::CorrelatorVersion
CorrelatorVersions == {"OldLegacy", "Legacy", "V2"}

\* The file names are strings of a percent and one other character.
Templates ==
    UNION {[1..n -> {"%", "a"}] : n \in 0..MaxTemplateLen}

\* format!("{}", n): the decimal digits of n
RECURSIVE Decimal(_)
Decimal(n) ==
    LET digit == <<"0", "1", "2", "3", "4", "5", "6", "7", "8", "9">>[(n % 10) + 1]
    IN  IF n < 10 THEN <<digit>> ELSE Append(Decimal(n \div 10), digit)

\* format!("{:0width$}", n, width = width)
ZeroPadded(n, width) ==
    LET digits == Decimal(n)
    IN  [i \in 1..(width - Len(digits)) |-> "0"] \o digits

\* Mutant: two percents are enough for every correlator.
num_percents_of_legacy(corr_version) == 2

\* get_gpubox_filenames: num_percents
num_percents(corr_version) ==
    IF corr_version \in {"Legacy", "OldLegacy"} THEN 2 ELSE 3

\* re_percents matches at i: at least n percents start there
PercentsAt(template, i, n) ==
    /\ i + n - 1 <= Len(template)
    /\ \A j \in i..(i + n - 1) : template[j] = "%"

\* re_percents.is_match
is_match(template, n) == \E i \in 1..Len(template) : PercentsAt(template, i, n)

\* re_percents.replace: the leftmost match, as long as it can be, is
\* replaced
Replace(template, n, rep) ==
    LET first == CHOOSE i \in 1..Len(template) :
                    /\ PercentsAt(template, i, n)
                    /\ \A j \in 1..(i - 1) : ~PercentsAt(template, j, n)
        last == CHOOSE j \in first..Len(template) :
                    /\ \A k \in first..j : template[k] = "%"
                    /\ (j = Len(template) \/ template[j + 1] # "%")
    IN  SubSeq(template, 1, first - 1) \o rep
            \o SubSeq(template, last + 1, Len(template))

\* FlagFileSet::get_gpubox_filenames
get_gpubox_filenames(corr_version, template, ids) ==
    LET n == num_percents(corr_version)
    IN  IF ~is_match(template, n)
        THEN [err |-> "InvalidFlagFilenameTemplate"]
        ELSE [ok |-> [id \in ids |-> Replace(template, n, ZeroPadded(id, n))]]

\* A FITS file that has been created and holds nothing yet
EmptyFits == [primary |-> <<>>, table |-> <<>>]

\* CoarseChannel.gpubox_number of the coarse channel at an index: the number
\* of the gpubox host (legacy) or the receiver channel number (MWAX)
gpubox_number(corr_version, idx) ==
    IF corr_version \in {"Legacy", "OldLegacy"} THEN idx + 1 ELSE 117 + idx

\* context.coarse_chans, corr_chan_number being the index
coarse_chans(corr_version) ==
    [idx \in 0..(MaxCoarseChans - 1) |->
        [gpubox_number |-> gpubox_number(corr_version, idx),
         corr_chan_number |-> idx]]

\* The contexts of the flag files: the observation has MaxTimesteps
\* timesteps, MaxCoarseChans coarse channels and num_ants antennas.
FlagContexts(versions, fine_chans) ==
    {[corr_version |-> v,
      num_timesteps |-> MaxTimesteps,
      num_ants |-> num_ants,
      num_baselines |-> metafits_num_baselines,
      num_corr_fine_chans_per_coarse |-> n,
      coarse_chans |-> coarse_chans(v)] : v \in versions, n \in fine_chans}

\* The gpubox ids of the context, and two no coarse channel has
GpuboxIdsOf(ctx) ==
    {ctx.coarse_chans[idx].gpubox_number : idx \in DOMAIN ctx.coarse_chans}
        \cup {7, 1234}

\* The smallest gpubox id a loop over a BTreeMap has not visited
NextGpuboxId(ids, visited) ==
    CHOOSE id \in ids \ visited : \A other \in ids \ visited : id <= other

\* The other functions are not involved.
NoBuilders ==
    /\ mwalib_timestep_range = [start |-> 0, end |-> 0]
    /\ mwalib_coarse_chan_range = [start |-> 0, end |-> 0]
    /\ mwalib_baseline_indices = <<>>
    /\ failing = {}
    /\ jones_array = <<>>
    /\ flag_array = <<>>
    /\ rx_error = <<>>
    /\ tx_error_dropped = FALSE
    /\ main_pc = "off"
    /\ result = "none"
    /\ worker_ts = <<>>
    /\ hdu_buffer = <<>>
    /\ collector_pc = "off"
    /\ progress_pc = "off"
    /\ read_log = <<>>
    /\ jones_writer = <<>>
    /\ jones_orig = <<>>
    /\ antennas = <<>>
    /\ corr_pc = "off"
    /\ corr_done = {}
    /\ corr_calls = [cable |-> 0, geom |-> 0]
    /\ cable_delays_applied = FALSE
    /\ geometric_delays_applied = "No"
    /\ no_cable_delay = FALSE
    /\ no_geometric_delay = FALSE
    /\ prep_ctx = [correct_cable_lengths |-> FALSE, correct_geometry |-> FALSE]
    /\ NoImgsets
    /\ NoChunks

\* The variables of the other functions
nvars == <<mwalib_coarse_chan_range, jones_array, bvars, jones_orig, antennas,
           corr_pc, corr_done, corr_calls, cable_delays_applied,
           geometric_delays_applied, no_cable_delay, no_geometric_delay,
           prep_ctx, kvars, ivars>>

\* FlagFileSet::new: the file names, or the error of the template
FlagFileSetNew ==
    /\ flag_pc = "new"
    /\ LET names == get_gpubox_filenames(corr_ctx.corr_version,
                                         filename_template, gpubox_ids)
       IN  IF "err" \in DOMAIN names
           THEN /\ flag_result' = names.err
                /\ flag_pc' = "failed"
           ELSE /\ flag_result' = "none"
                /\ flag_pc' = "create"
    /\ flag_visited' = {}
    /\ UNCHANGED <<corr_ctx, filename_template, gpubox_ids, disk, gpubox_fptrs,
                   mask_flagged, mask_stride, chan_header_flags_raw, nvars>>

\* FlagFileSet::new: FitsFile::create of the next file of gpubox_filenames,
\* which fails when the file exists
FlagFileCreate ==
    /\ flag_pc = "create"
    /\ flag_visited # gpubox_ids
    /\ LET gpubox_id == NextGpuboxId(gpubox_ids, flag_visited)
           filename == get_gpubox_filenames(corr_ctx.corr_version, filename_template,
                                            gpubox_ids).ok[gpubox_id]
       IN  IF filename \in DOMAIN disk
           THEN /\ flag_result' = "FitsOpen"
                /\ flag_pc' = "failed"
                /\ gpubox_fptrs' = <<>>
                /\ flag_visited' = {}
                /\ UNCHANGED disk
           ELSE /\ disk' = [f \in DOMAIN disk \cup {filename} |->
                              IF f = filename THEN EmptyFits ELSE disk[f]]
                /\ gpubox_fptrs' =
                      [id \in DOMAIN gpubox_fptrs \cup {gpubox_id} |->
                          IF id = gpubox_id THEN filename ELSE gpubox_fptrs[id]]
                /\ flag_visited' = flag_visited \cup {gpubox_id}
                /\ UNCHANGED <<flag_result, flag_pc>>
    /\ UNCHANGED <<corr_ctx, filename_template, gpubox_ids, mask_flagged,
                   mask_stride, chan_header_flags_raw, nvars>>

\* FlagFileSet::new returns the set
FlagFileSetNewReturn ==
    /\ flag_pc = "create"
    /\ flag_visited = gpubox_ids
    /\ flag_result' = "Ok"
    /\ flag_pc' = "created"
    /\ flag_visited' = {}
    /\ UNCHANGED <<corr_ctx, filename_template, gpubox_ids, disk, gpubox_fptrs,
                   mask_flagged, mask_stride, chan_header_flags_raw, nvars>>


\* FlagFileHeaders::from_gpubox_context
from_gpubox_context(gpubox_id, ctx) ==
    [num_channels |-> ctx.num_corr_fine_chans_per_coarse,
     num_ants |-> ctx.num_ants,
     num_timesteps |-> ctx.num_timesteps,
     num_pols |-> 1,
     gpubox_id |-> gpubox_id,
     bytes_per_row |->
        (ctx.num_corr_fine_chans_per_coarse \div BitsPerByte)
            + (IF ctx.num_corr_fine_chans_per_coarse % BitsPerByte # 0 THEN 1 ELSE 0),
     num_rows |-> ctx.num_timesteps * ctx.num_baselines]

\* write_primary_hdu: the keys of the primary HDU
PrimaryKeys(header) ==
    [NCHANS |-> header.num_channels,
     NANTENNA |-> header.num_ants,
     NSCANS |-> header.num_timesteps,
     NPOLS |-> header.num_pols,
     GPUBOXNO |-> header.gpubox_id]

\* The masks of write_baseline_flagmasks: MakeFlagMask(width, height, false)
\* with the timesteps of the observation as columns and its fine channels
\* as rows
mask_width == corr_ctx.num_timesteps
mask_height == MaxCoarseChans * corr_ctx.num_corr_fine_chans_per_coarse
\* flagmask.Buffer() of the mask of a baseline
Buffer(baseline_idx) ==
    [i \in 1..(mask_height * mask_stride) |-> <<baseline_idx, i - 1>> \in mask_flagged]

\* A bit of a row of a bit column: the first bit is the highest of the
\* first byte
GetBit(row, bit) ==
    (row[(bit \div BitsPerByte) + 1]
        \div (2 ^ (BitsPerByte - 1 - (bit % BitsPerByte)))) % 2

\* ffpclx(fptr, 1, row, 1, nbit, larray): the row with its first bits set
\* from the array
PutBits(row, larray) ==
    LET bit(b) == IF b < Len(larray)
                  THEN (IF larray[b + 1] # 0 THEN 1 ELSE 0)
                  ELSE GetBit(row, b)
        RECURSIVE byte(_, _)
        byte(k, j) ==
            IF j = BitsPerByte THEN 0
            ELSE bit((k - 1) * BitsPerByte + j) * (2 ^ (BitsPerByte - 1 - j))
                    + byte(k, j + 1)
    IN  [k \in 1..Len(row) |-> byte(k, 0)]

\* Mutant: the flags of the first coarse channel go to every file.
FlagCellOfFirstChan(flag_buffer, flag_stride, timestep_idx, chan_number, num_fine) ==
    LET count == IF timestep_idx >= Len(flag_buffer) THEN 0
                 ELSE ((Len(flag_buffer) - 1 - timestep_idx) \div flag_stride) + 1
        column == [y \in 1..count |->
                     flag_buffer[timestep_idx + (y - 1) * flag_stride + 1]]
        taken == SubSeq(column, 1, IF num_fine < count THEN num_fine ELSE count)
    IN  [f \in 1..Len(taken) |-> IF taken[f] THEN 1 ELSE 0]

\* write_baseline_flagmasks: the cell of a row,
\* flag_buffer.iter().skip(timestep_idx).step_by(flag_stride)
\*     .skip(chan_number * num_fine).take(num_fine).map(i8::from)
FlagCell(flag_buffer, flag_stride, timestep_idx, chan_number, num_fine) ==
    LET count == IF timestep_idx >= Len(flag_buffer) THEN 0
                 ELSE ((Len(flag_buffer) - 1 - timestep_idx) \div flag_stride) + 1
        column == [y \in 1..count |->
                     flag_buffer[timestep_idx + (y - 1) * flag_stride + 1]]
        first == chan_number * num_fine + 1
        last == IF first + num_fine - 1 < count THEN first + num_fine - 1 ELSE count
        taken == SubSeq(column, first, last)
    IN  [f \in 1..Len(taken) |-> IF taken[f] THEN 1 ELSE 0]

\* write_baseline_flagmasks and read_chan_header_flags_raw: row_idx
RowIdx(timestep_idx, n_baselines, baseline_idx) ==
    (timestep_idx * n_baselines) + baseline_idx

\* write_baseline_flagmasks: the rows of the table of a file once the
\* loops over the masks and their timesteps have run; a bit column of
\* num_channels bits, a row written past the end extends the table
WrittenRows(header, chan_number) ==
    LET n_baselines == (header.num_ants * (header.num_ants + 1)) \div 2
        zero_row == [k \in 1..header.bytes_per_row |-> 0]
        RECURSIVE rows_after(_)
        rows_after(n) ==
            IF n = 0 THEN [r \in 0..(header.num_rows - 1) |-> zero_row]
            ELSE LET rows == rows_after(n - 1)
                     baseline_idx == (n - 1) \div mask_width
                     timestep_idx == (n - 1) % mask_width
                     row_idx == RowIdx(timestep_idx, n_baselines, baseline_idx)
                     cell == FlagCell(Buffer(baseline_idx), mask_stride, timestep_idx,
                                      chan_number, header.num_channels)
                 IN  [r \in DOMAIN rows \cup {row_idx} |->
                        IF r = row_idx
                        THEN PutBits(IF r \in DOMAIN rows THEN rows[r] ELSE zero_row, cell)
                        ELSE rows[r]]
    IN  rows_after(corr_ctx.num_baselines * mask_width)

\* write_baseline_flagmasks: gpubox_chan_numbers
gpubox_chan_numbers(ctx) ==
    [id \in {ctx.coarse_chans[idx].gpubox_number : idx \in DOMAIN ctx.coarse_chans} |->
        (CHOOSE idx \in DOMAIN ctx.coarse_chans :
            ctx.coarse_chans[idx].gpubox_number = id)]

\* write_baseline_flagmasks is called with the masks of every baseline
WriteBaselineFlagmasksCall ==
    /\ flag_pc = "created"
    /\ flag_pc' = "write"
    /\ flag_visited' = {}
    /\ UNCHANGED <<corr_ctx, filename_template, gpubox_ids, disk, gpubox_fptrs,
                   flag_result, mask_flagged, mask_stride, chan_header_flags_raw,
                   nvars>>

\* write_baseline_flagmasks: the next file of the set, or the error of a
\* gpubox id the context does not have
WriteGpuboxFile ==
    /\ flag_pc = "write"
    /\ flag_visited # DOMAIN gpubox_fptrs
    /\ LET gpubox_id == NextGpuboxId(DOMAIN gpubox_fptrs, flag_visited)
           filename == gpubox_fptrs[gpubox_id]
           header == from_gpubox_context(gpubox_id, corr_ctx)
           chan_numbers == gpubox_chan_numbers(corr_ctx)
       IN  IF gpubox_id \notin DOMAIN chan_numbers
           THEN /\ disk' = [disk EXCEPT ![filename].primary = PrimaryKeys(header)]
                /\ flag_result' = "InvalidGpuBox"
                /\ flag_pc' = "failed"
                /\ flag_visited' = {}
           ELSE /\ disk' = [disk EXCEPT ![filename] =
                              [primary |-> PrimaryKeys(header),
                               table |-> [NAXIS1 |-> header.bytes_per_row,
                                          NAXIS2 |-> header.num_rows,
                                          rows |-> WrittenRows(header,
                                              corr_ctx.coarse_chans[chan_numbers[gpubox_id]].corr_chan_number)]]]
                /\ flag_visited' = flag_visited \cup {gpubox_id}
                /\ UNCHANGED <<flag_result, flag_pc>>
    /\ UNCHANGED <<corr_ctx, filename_template, gpubox_ids, gpubox_fptrs,
                   mask_flagged, mask_stride, chan_header_flags_raw, nvars>>

\* write_baseline_flagmasks returns
WriteBaselineFlagmasksReturn ==
    /\ flag_pc = "write"
    /\ flag_visited = DOMAIN gpubox_fptrs
    /\ flag_result' = "Ok"
    /\ flag_pc' = "written"
    /\ flag_visited' = {}
    /\ UNCHANGED <<corr_ctx, filename_template, gpubox_ids, disk, gpubox_fptrs,
                   mask_flagged, mask_stride, chan_header_flags_raw, nvars>>

\* read_header: the keys of both HDUs
read_header(file) ==
    [num_channels |-> file.primary.NCHANS,
     num_ants |-> file.primary.NANTENNA,
     num_timesteps |-> file.primary.NSCANS,
     num_pols |-> file.primary.NPOLS,
     gpubox_id |-> file.primary.GPUBOXNO,
     bytes_per_row |-> file.table.NAXIS1,
     num_rows |-> file.table.NAXIS2]

\* read_chan_header_flags_raw: flags_raw of a file, zeros but for the
\* slices [row_idx * num_channels, (row_idx + 1) * num_channels) of the
\* rows of every (timestep, baseline), read with ffgcx: one value per bit
FlagsRaw(file, header) ==
    LET n_baselines == (header.num_ants * (header.num_ants + 1)) \div 2
        row_idxs == {RowIdx(timestep_idx, n_baselines, baseline_idx) :
                        timestep_idx \in 0..(header.num_timesteps - 1),
                        baseline_idx \in 0..(n_baselines - 1)}
    IN  [i \in 1..(header.num_timesteps * n_baselines * header.num_channels) |->
            LET row_idx == (i - 1) \div header.num_channels
            IN  IF row_idx \in row_idxs
                THEN GetBit(file.table.rows[row_idx], (i - 1) % header.num_channels)
                ELSE 0]

\* read_chan_header_flags_raw: the next file of the set
ReadGpuboxFile ==
    /\ flag_pc = "written"
    /\ flag_visited # DOMAIN gpubox_fptrs
    /\ LET gpubox_id == NextGpuboxId(DOMAIN gpubox_fptrs, flag_visited)
           file == disk[gpubox_fptrs[gpubox_id]]
           header == read_header(file)
           baselines_of == (header.num_ants * (header.num_ants + 1)) \div 2
       IN  IF header.num_rows # header.num_timesteps * baselines_of
           THEN /\ flag_result' = "MwafInconsistent"
                /\ flag_pc' = "failed"
                /\ flag_visited' = {}
                /\ UNCHANGED chan_header_flags_raw
           ELSE /\ chan_header_flags_raw' =
                      [id \in DOMAIN chan_header_flags_raw \cup {gpubox_id} |->
                          IF id = gpubox_id
                          THEN [header |-> header, flags_raw |-> FlagsRaw(file, header)]
                          ELSE chan_header_flags_raw[id]]
                /\ flag_visited' = flag_visited \cup {gpubox_id}
                /\ UNCHANGED <<flag_result, flag_pc>>
    /\ UNCHANGED <<corr_ctx, filename_template, gpubox_ids, disk, gpubox_fptrs,
                   mask_flagged, mask_stride, nvars>>

\* read_chan_header_flags_raw returns the map
ReadChanHeaderFlagsRawReturn ==
    /\ flag_pc = "written"
    /\ flag_visited = DOMAIN gpubox_fptrs
    /\ flag_result' = "Ok"
    /\ flag_pc' = "read"
    /\ flag_visited' = {}
    /\ UNCHANGED <<corr_ctx, filename_template, gpubox_ids, disk, gpubox_fptrs,
                   mask_flagged, mask_stride, chan_header_flags_raw, nvars>>

FlagNext ==
    \/ FlagFileSetNew
    \/ FlagFileCreate
    \/ FlagFileSetNewReturn
    \/ WriteBaselineFlagmasksCall
    \/ WriteGpuboxFile
    \/ WriteBaselineFlagmasksReturn
    \/ ReadGpuboxFile
    \/ ReadChanHeaderFlagsRawReturn


\* A caller of FlagFileSet::new with any template, any correlator version,
\* a few gpubox ids, and at most one of the files present already; the
\* masks it writes later have no flag set.
FlagNamesInit ==
    /\ corr_ctx \in FlagContexts(CorrelatorVersions, {1})
    /\ filename_template \in Templates
    /\ gpubox_ids \in {ids \in SUBSET GpuboxIdsOf(corr_ctx) :
                          Cardinality(ids) <= MaxGpuboxIds}
    /\ \E present \in {ids \in SUBSET gpubox_ids : Cardinality(ids) <= 1} :
          LET names == get_gpubox_filenames(corr_ctx.corr_version,
                                            filename_template, present)
          IN  disk = IF "err" \in DOMAIN names THEN <<>>
                     ELSE [f \in {names.ok[id] : id \in present} |-> EmptyFits]
    /\ gpubox_fptrs = <<>>
    /\ flag_pc = "new"
    /\ flag_result = "none"
    /\ flag_visited = {}
    /\ mask_flagged = {}
    /\ mask_stride = mask_width
    /\ chan_header_flags_raw = <<>>
    /\ NoBuilders

SpecFlagNames == FlagNamesInit /\ [][FlagNext]_vars

\* The numbers of fine channels per coarse channel of the flag files: one,
\* the bound, and one more than a byte has bits
FineChanChoices == {1, MaxFineChans, BitsPerByte + 1}

\* A caller that writes masks with at most one flag set, anywhere in their
\* buffers, to the files of the coarse channels of the observation, of
\* one of them, or of these and of a gpubox the observation has not.
FlagIoInit ==
    /\ corr_ctx \in FlagContexts({"Legacy", "V2"}, FineChanChoices)
    /\ filename_template = <<"a", "%", "%", "%">>
    /\ LET ids == DOMAIN gpubox_chan_numbers(corr_ctx)
       IN  gpubox_ids \in {ids, ids \cup {1234}} \cup {{id} : id \in ids}
    /\ disk = <<>>
    /\ gpubox_fptrs = <<>>
    /\ flag_pc = "new"
    /\ flag_result = "none"
    /\ flag_visited = {}
    /\ mask_stride \in {mask_width, mask_width + 1}
    /\ mask_flagged \in
          {{}} \cup {{<<b, i>>} : b \in 0..(corr_ctx.num_baselines - 1),
                                 i \in 0..(mask_height * mask_stride - 1)}
    /\ chan_header_flags_raw = <<>>
    /\ NoBuilders

SpecFlagIo == FlagIoInit /\ [][FlagNext]_vars

\* The template has n percents in a row.
HasPercents(template, n) ==
    \E i \in 1..Len(template) :
        \A j \in 0..(n - 1) : i + j <= Len(template) /\ template[i + j] = "%"

\* The percents a correlator version requires: 2 for a legacy correlator,
\* 3 for MWAX
RequiredPercents == IF corr_ctx.corr_version = "V2" THEN 3 ELSE 2

\* The number a string of decimal digits reads as
RECURSIVE DecimalValue(_)
DecimalValue(digits) ==
    IF digits = <<>> THEN 0
    ELSE LET last == digits[Len(digits)]
             value == CHOOSE d \in 0..9 :
                         <<"0", "1", "2", "3", "4", "5", "6", "7", "8", "9">>[d + 1] = last
         IN  10 * DecimalValue(SubSeq(digits, 1, Len(digits) - 1)) + value

\* The name is the template with its first run of at least n percents
\* replaced by the id, padded with zeros to n digits.
IsNameOf(name, template, id, n) ==
    \E first \in 1..Len(template) :
        \E last \in first..Len(template) :
            /\ \A k \in first..last : template[k] = "%"
            /\ last - first + 1 >= n
            /\ first = 1 \/ template[first - 1] # "%"
            /\ last = Len(template) \/ template[last + 1] # "%"
            /\ ~HasPercents(SubSeq(template, 1, first - 1), n)
            /\ Len(name) >= first - 1 + n + (Len(template) - last)
            /\ LET pad == SubSeq(name, first, Len(name) - (Len(template) - last))
               IN  /\ SubSeq(name, 1, first - 1) = SubSeq(template, 1, first - 1)
                   /\ SubSeq(name, Len(name) - (Len(template) - last) + 1, Len(name))
                         = SubSeq(template, last + 1, Len(template))
                   /\ \A k \in 1..Len(pad) : pad[k] \notin {"%", "a"}
                   /\ DecimalValue(pad) = id
                   /\ Len(pad) > n => pad[1] # "0"

\* C24: FlagFileSet::new returns InvalidFlagFilenameTemplate, and no step
\* creates a file, when the template has no run of at least 2 percents
\* (legacy correlator) or 3 (MWAX); a template with such a run is not
\* rejected as invalid, and the name of every file of the set is the
\* template with that run replaced by the zero-padded gpubox id.
C24_TemplatePercents ==
    /\ [](IF ~HasPercents(filename_template, RequiredPercents)
          THEN /\ flag_pc \in {"new", "failed"}
               /\ flag_pc = "failed" => flag_result = "InvalidFlagFilenameTemplate"
               /\ gpubox_fptrs = <<>>
          ELSE /\ flag_result # "InvalidFlagFilenameTemplate"
               /\ \A id \in DOMAIN gpubox_fptrs :
                     /\ id \in gpubox_ids
                     /\ gpubox_fptrs[id] \in DOMAIN disk
                     /\ IsNameOf(gpubox_fptrs[id], filename_template, id,
                                 RequiredPercents)
               /\ flag_pc = "created" => DOMAIN gpubox_fptrs = gpubox_ids)
    /\ [][~HasPercents(filename_template, RequiredPercents) => disk' = disk]_vars

\* An MWAX caller passes a template whose longest run has two percents and
\* two gpubox ids: the call has failed and no file exists.
C24_Witness ==
    /\ corr_ctx.corr_version = "V2"
    /\ HasPercents(filename_template, 2)
    /\ Cardinality(gpubox_ids) = 2
    /\ flag_pc = "failed"
    /\ flag_result = "InvalidFlagFilenameTemplate"
    /\ disk = <<>>

\* The coarse channel of a gpubox id
ChanOfGpubox(id) ==
    CHOOSE idx \in DOMAIN corr_ctx.coarse_chans :
        corr_ctx.coarse_chans[idx].gpubox_number = id

\* C23: after write_baseline_flagmasks, read_chan_header_flags_raw returns
\* one table per coarse channel of the set; in the table of a coarse channel
\* the flag of (timestep t, baseline b, fine channel f) is at position f of
\* row t * num_baselines + b, the rows in (timestep, baseline) order, and it
\* equals the cell at row chan * fine_per_coarse + f, column t of the mask
\* of baseline b.
C23_FlagFilesRoundTrip ==
    /\ flag_pc = "read" => DOMAIN chan_header_flags_raw = gpubox_ids
    /\ \A id \in DOMAIN chan_header_flags_raw :
          LET raw == chan_header_flags_raw[id].flags_raw
              chan == ChanOfGpubox(id)
              fine_per_coarse == corr_ctx.num_corr_fine_chans_per_coarse
          IN  /\ Len(raw) = corr_ctx.num_timesteps * corr_ctx.num_baselines
                                * fine_per_coarse
              /\ \A t \in 0..(corr_ctx.num_timesteps - 1) :
                    \A b \in 0..(corr_ctx.num_baselines - 1) :
                        \A f \in 0..(fine_per_coarse - 1) :
                            raw[(t * corr_ctx.num_baselines + b) * fine_per_coarse + f + 1]
                                = IF <<b, (chan * fine_per_coarse + f) * mask_stride + t>>
                                        \in mask_flagged
                                  THEN 1 ELSE 0

\* The tables have been read back; that of the second coarse channel has a
\* flag in the second byte of a row of the second timestep and the second
\* baseline, from a mask whose rows are longer than its width.
C23_Witness ==
    /\ flag_pc = "read"
    /\ mask_stride > mask_width
    /\ corr_ctx.num_corr_fine_chans_per_coarse > BitsPerByte
    /\ \E id \in DOMAIN chan_header_flags_raw :
          /\ ChanOfGpubox(id) = 1
          /\ chan_header_flags_raw[id].flags_raw[
                (corr_ctx.num_baselines + 1) * corr_ctx.num_corr_fine_chans_per_coarse
                    + BitsPerByte + 1] = 1


\* ------------------------------------------------------------------------
\* main_with_args: the chunks of the selected timesteps
\* ------------------------------------------------------------------------
\* The largest time averaging factor
MaxAvgTime == 2
\* The reads the provider fails during one run of main
MaxChunkFailures == 1

\* The flags context_to_jones_array returns for a selection of all
\* baselines, given flags that are all false.
BuiltFlags(timestep_range, coarse_chan_range, failed) ==
    [cell \in DOMAIN Array3(Shape(timestep_range, coarse_chan_range,
                                  BaselineRun(0, metafits_num_baselines)), 0) |->
        <<cell[1] + timestep_range.start,
          (cell[2] \div num_corr_fine_chans_per_coarse) + coarse_chan_range.start>>
            \in failed]

\* Option<usize>
None == [is_some |-> FALSE, value |-> 0]
Some(v) == [is_some |-> TRUE, value |-> v]
\* A panic in place of a value
Panic == [is_some |-> FALSE, value |-> -1]

\* Mutant: any number of timesteps is taken as the chunk size.
NumTimestepsPerChunkUnchecked(steps_str, mem_str, factor, num_sel_timesteps) ==
    IF steps_str.is_some /\ mem_str.is_some THEN Panic
    ELSE IF steps_str.is_some
    THEN IF steps_str.value < 0 THEN Panic
         ELSE Some(steps_str.value)
    ELSE IF mem_str.is_some
    THEN IF mem_str.value < num_sel_timesteps
         THEN IF mem_str.value < factor THEN Panic
              ELSE Some((mem_str.value \div factor) * factor)
         ELSE None
    ELSE None

\* num_timesteps_per_chunk; a --time-chunk below zero does not parse as an
\* unsigned integer, and the memory is counted in the timesteps of the
\* selection it holds, max_memory_bytes / bytes_per_timestep rounded down
NumTimestepsPerChunk(steps_str, mem_str, factor, num_sel_timesteps) ==
    IF steps_str.is_some /\ mem_str.is_some THEN Panic
    ELSE IF steps_str.is_some
    THEN IF steps_str.value < 0 THEN Panic
         ELSE IF steps_str.value % factor # 0 THEN Panic
         ELSE Some(steps_str.value)
    ELSE IF mem_str.is_some
    THEN IF mem_str.value < num_sel_timesteps
         THEN IF mem_str.value < factor THEN Panic
              ELSE Some((mem_str.value \div factor) * factor)
         ELSE None
    ELSE None

\* let chunk_size
ChunkSize ==
    IF num_timesteps_per_chunk.is_some THEN num_timesteps_per_chunk.value
    ELSE RangeLen(full_sel_timestep_range)

\* Mutant: the last timestep of a chunk is its end.
ChunkTimestepRangeWithoutLast(first, size, full) ==
    LET chunk_last == IF first + size - 1 < full.end - 1
                      THEN first + size - 1 ELSE full.end - 1
    IN  [start |-> first, end |-> chunk_last]

\* Mutant: the last chunk is not cut at the end of the selection.
ChunkTimestepRangeUncut(first, size, full) ==
    [start |-> first, end |-> first + size]

\* chunk_vis_sel.timestep_range of the chunk that starts at a timestep:
\* chunk_first_timestep..chunk_last_timestep + 1
ChunkTimestepRange(first, size, full) ==
    LET chunk_last == IF first + size - 1 < full.end - 1
                      THEN first + size - 1 ELSE full.end - 1
    IN  [start |-> first, end |-> chunk_last + 1]

\* The timesteps of an array
TimeLen(arr) == Cardinality({cell[1] : cell \in DOMAIN arr})

\* The writers take the chunks one after the other: what they have been
\* given, and a chunk behind it along the time axis
ConcatTime(arr, chunk) ==
    LET len == TimeLen(arr)
    IN  [cell \in DOMAIN arr \cup {<<len + c[1], c[2], c[3]>> : c \in DOMAIN chunk} |->
            IF cell \in DOMAIN arr THEN arr[cell]
            ELSE chunk[<<cell[1] - len, cell[2], cell[3]>>]]

\* The selections of timesteps: --sel-time from to, from <= to
SelTimes ==
    {[start |-> from, end |-> to + 1] :
        from \in 0..(MaxTimesteps - 1), to \in 0..(MaxTimesteps - 1)}
        \ {r \in [start : 0..MaxTimesteps, end : 0..MaxTimesteps] : r.end <= r.start}

\* main_with_args has read the context and the selection; the corrections
\* and the RFI flagging are off.
ChunkInit ==
    /\ time_chunk \in {None} \cup {Some(v) : v \in (-1)..(MaxTimesteps + 1)}
    /\ max_memory \in {None} \cup {Some(v) : v \in 0..MaxTimesteps}
    /\ time_chunk.is_some => max_memory \in {None, Some(1)}
    /\ avg_time \in 1..MaxAvgTime
    /\ flag_template \in BOOLEAN
    /\ uvfits_out \in BOOLEAN
    /\ ms_out \in BOOLEAN
    /\ full_sel_timestep_range \in SelTimes
    /\ num_timesteps_per_chunk = None
    /\ writers = {}
    /\ chunk_pc = "chunk_option"
    /\ next_timestep = 0
    /\ written_jones = <<>>
    /\ written_flags = <<>>
    /\ mwalib_timestep_range = [start |-> 0, end |-> 0]
    /\ mwalib_coarse_chan_range = [start |-> 0, end |-> MaxCoarseChans]
    /\ mwalib_baseline_indices = BaselineRun(0, metafits_num_baselines)
    /\ failing = {}
    /\ jones_array = <<>>
    /\ flag_array = <<>>
    /\ rx_error = <<>>
    /\ tx_error_dropped = FALSE
    /\ main_pc = "off"
    /\ result = "none"
    /\ worker_ts = <<>>
    /\ hdu_buffer = <<>>
    /\ collector_pc = "off"
    /\ progress_pc = "off"
    /\ read_log = [h \in (0..(MaxTimesteps - 1)) \X (0..(MaxCoarseChans - 1)) |-> 0]
    /\ jones_writer = <<>>
    /\ jones_orig = <<>>
    /\ antennas = <<>>
    /\ corr_pc = "off"
    /\ corr_done = {}
    /\ corr_calls = [cable |-> 0, geom |-> 0]
    /\ cable_delays_applied = FALSE
    /\ geometric_delays_applied = "No"
    /\ no_cable_delay = TRUE
    /\ no_geometric_delay = TRUE
    /\ prep_ctx = [correct_cable_lengths |-> FALSE, correct_geometry |-> FALSE]
    /\ NoImgsets
    /\ NoFlagFiles

\* The variables main_with_args leaves alone
cxvars == <<mwalib_coarse_chan_range, mwalib_baseline_indices, rx_error,
            tx_error_dropped, main_pc, result, worker_ts, hdu_buffer,
            collector_pc, progress_pc, jones_writer, jones_orig, antennas,
            corr_pc, corr_done, corr_calls, cable_delays_applied,
            geometric_delays_applied, no_cable_delay, no_geometric_delay,
            prep_ctx, fvars, ivars, time_chunk, max_memory, avg_time,
            flag_template, uvfits_out, ms_out, full_sel_timestep_range>>

\* main_with_args: --time-chunk and --max-memory
MainChunkOption ==
    /\ chunk_pc = "chunk_option"
    /\ LET steps == NumTimestepsPerChunk(time_chunk, max_memory, avg_time,
                                         RangeLen(full_sel_timestep_range))
       IN  IF steps = Panic
           THEN /\ chunk_pc' = "panicked"
                /\ UNCHANGED num_timesteps_per_chunk
           ELSE /\ chunk_pc' = "validate"
                /\ num_timesteps_per_chunk' = steps
    /\ UNCHANGED <<writers, next_timestep, written_jones, written_flags,
                   mwalib_timestep_range, failing, jones_array, flag_array,
                   read_log, cxvars>>

\* Mutant: the chunk size is not validated.
MainValidateChunkAccepts ==
    /\ chunk_pc = "validate"
    /\ chunk_pc' = "writers"
    /\ UNCHANGED <<num_timesteps_per_chunk, writers, next_timestep, written_jones,
                   written_flags, mwalib_timestep_range, failing, jones_array,
                   flag_array, read_log, cxvars>>

\* main_with_args: validate chunk size
MainValidateChunk ==
    /\ chunk_pc = "validate"
    /\ chunk_pc' = IF num_timesteps_per_chunk.is_some /\ flag_template
                   THEN "panicked" ELSE "writers"
    /\ UNCHANGED <<num_timesteps_per_chunk, writers, next_timestep, written_jones,
                   written_flags, mwalib_timestep_range, failing, jones_array,
                   flag_array, read_log, cxvars>>

\* main_with_args: the uvfits writer and the measurement set writer are
\* initialised, then the chunks iterator is made, which panics when the size
\* of the chunks is zero
MainInitWriters ==
    /\ chunk_pc = "writers"
    /\ writers' = (IF uvfits_out THEN {"uvfits"} ELSE {})
                    \cup (IF ms_out THEN {"ms"} ELSE {})
    /\ chunk_pc' = IF ChunkSize = 0 THEN "panicked" ELSE "chunks"
    /\ next_timestep' = full_sel_timestep_range.start
    /\ UNCHANGED <<num_timesteps_per_chunk, written_jones, written_flags,
                   mwalib_timestep_range, failing, jones_array, flag_array,
                   read_log, cxvars>>

\* main_with_args: the iterator gives out the next chunk_size timesteps, or
\* those that are left; the chunk is read with context_to_jones_array,
\* whatever reads fail, its flags are written to the flag files of
\* --flag-template, and it is given to the writers
MainChunk ==
    /\ chunk_pc = "chunks"
    /\ next_timestep < full_sel_timestep_range.end
    /\ LET range == ChunkTimestepRange(next_timestep, ChunkSize,
                                       full_sel_timestep_range)
           hdus == HdusOf(range, mwalib_coarse_chan_range)
       IN  \E failed \in SUBSET hdus :
              /\ Cardinality(failing \cup failed) <= MaxChunkFailures
              /\ mwalib_timestep_range' = range
              /\ failing' = failing \cup failed
              /\ read_log' = [h \in DOMAIN read_log |->
                                IF h \in hdus THEN read_log[h] + 1 ELSE read_log[h]]
              /\ jones_array' = BuiltJones(range, mwalib_coarse_chan_range, failing')
              /\ flag_array' = BuiltFlags(range, mwalib_coarse_chan_range, failing')
              /\ written_jones' = ConcatTime(written_jones, jones_array')
              /\ written_flags' = ConcatTime(written_flags, flag_array')
              /\ next_timestep' =
                    IF next_timestep + ChunkSize < full_sel_timestep_range.end
                    THEN next_timestep + ChunkSize
                    ELSE full_sel_timestep_range.end
    /\ writers' = writers \cup (IF flag_template THEN {"mwaf"} ELSE {})
    /\ UNCHANGED <<num_timesteps_per_chunk, chunk_pc, cxvars>>

\* main_with_args: the chunks are exhausted
MainFinish ==
    /\ chunk_pc = "chunks"
    /\ next_timestep >= full_sel_timestep_range.end
    /\ chunk_pc' = "done"
    /\ UNCHANGED <<num_timesteps_per_chunk, writers, next_timestep, written_jones,
                   written_flags, mwalib_timestep_range, failing, jones_array,
                   flag_array, read_log, cxvars>>

ChunkNext ==
    \/ MainChunkOption
    \/ MainValidateChunk
    \/ MainInitWriters
    \/ MainChunk
    \/ MainFinish

SpecChunks == ChunkInit /\ [][ChunkNext]_vars

\* C21: when main has processed the selected timesteps in chunks, the
\* arrays of the chunks, read one after the other with
\* context_to_jones_array and put behind one another along the time axis,
\* are the arrays of one read of the whole selection; while it runs they
\* are those of the timesteps before the next chunk.
C21_ChunksEqualOnePass ==
    /\ chunk_pc = "chunks" =>
          LET sofar == [start |-> full_sel_timestep_range.start, end |-> next_timestep]
          IN  /\ written_jones = BuiltJones(sofar, mwalib_coarse_chan_range, failing)
              /\ written_flags = BuiltFlags(sofar, mwalib_coarse_chan_range, failing)
    /\ chunk_pc = "done" =>
          /\ written_jones = BuiltJones(full_sel_timestep_range,
                                        mwalib_coarse_chan_range, failing)
          /\ written_flags = BuiltFlags(full_sel_timestep_range,
                                        mwalib_coarse_chan_range, failing)

\* Main has processed two timesteps in chunks of one and has written them;
\* a read of the second chunk has failed.
C21_Witness ==
    /\ chunk_pc = "done"
    /\ time_chunk = Some(1)
    /\ RangeLen(full_sel_timestep_range) >= 2
    /\ writers # {}
    /\ \E h \in failing : h[1] = full_sel_timestep_range.start + 1
    /\ \E cell \in DOMAIN written_flags : written_flags[cell]
    /\ \E cell \in DOMAIN written_jones : cell[1] = 1 /\ written_jones[cell] # ZeroJones

\* C22: with a --time-chunk that is not an integer multiple of the time
\* averaging factor, main does not get past the option: it panics, no
\* writer is initialised and no HDU is read.
C22_BadTimeChunkRejected ==
    (time_chunk.is_some /\ time_chunk.value % avg_time # 0) =>
        /\ chunk_pc \in {"chunk_option", "panicked"}
        /\ writers = {}
        /\ \A h \in DOMAIN read_log : read_log[h] = 0
        /\ written_jones = <<>>
        /\ written_flags = <<>>
        /\ ~num_timesteps_per_chunk.is_some

\* --time-chunk 1 with an averaging factor of 2, a selection of two
\* timesteps and a measurement set as output: main has panicked.
C22_Witness ==
    /\ chunk_pc = "panicked"
    /\ time_chunk = Some(1)
    /\ avg_time = 2
    /\ max_memory = None
    /\ ms_out
    /\ RangeLen(full_sel_timestep_range) = 2

\* ---------------------------------------------------------------------
\* The arrays as a function of the inputs and the failed reads
\* ---------------------------------------------------------------------

\* The visibility array of a call with the ranges and the baselines of the
\* state in which exactly the reads of failed fail
JonesOf(failed) ==
    [cell \in DOMAIN Array3(Shape(mwalib_timestep_range, mwalib_coarse_chan_range,
                                  mwalib_baseline_indices), 0) |->
        LET h == HduOfCell(cell)
            zeros == [i \in 1..floats_per_hdu |-> 0]
        IN  IF h \in failed THEN ZeroJones
            ELSE JonesFromChunk(
                    read_by_baseline_into_buffer(h[1], h[2], zeros, TRUE).buffer,
                    cell[3], cell[2] % FinePerCoarse)]

\* The flag array of such a call
FlagsOf(failed) ==
    [cell \in DOMAIN Array3(Shape(mwalib_timestep_range, mwalib_coarse_chan_range,
                                  mwalib_baseline_indices), 0) |->
        HduOfCell(cell) \in failed]

\* C34: when context_to_jones_array has returned, its two arrays are those
\* that the ranges, the baselines and the set of the failed reads
\* determine, whatever the order in which the tasks and the collector
\* took their steps; after the return no step changes them.
C34_ArraysDependOnFailuresOnly ==
    /\ [](Returned =>
            (jones_array = JonesOf(failing) /\ flag_array = FlagsOf(failing)))
    /\ [][Returned => (jones_array' = jones_array /\ failing' = failing)]_vars

\* A returned call of two coarse channels and two timesteps, with cells,
\* of which a read of each coarse channel failed
C34_Witness ==
    /\ Returned
    /\ num_timesteps >= 2
    /\ Len(mwalib_baseline_indices) >= 1
    /\ \E h1, h2 \in failing : h1[2] # h2[2] /\ h1[1] # h2[1]
    /\ ReadOk # {}

\* ---------------------------------------------------------------------
\* context_to_baseline_imgsets with masks the caller has flagged
\* ---------------------------------------------------------------------
\* The HDUs of the selection of a call with flagged masks
MaxMaskedHdus == 2

\* What a caller has flagged in the first mask and in the other masks:
\* nothing, every cell (a baseline of a bad antenna), or the first cell
MaskPatterns == {<<"all", "clear">>, <<"first", "all">>, <<"clear", "first">>}

\* A mask of the size of the images with a pattern flagged
CallerMask(pattern) ==
    [i \in 1..(img_height * HorizontalStride) |->
        \/ pattern = "all"
        \/ pattern = "first" /\ i = 1]

\* A call with Some(&mut baseline_flagmasks): the first mask holds one
\* pattern, the others another one.
ImgMasksInit ==
    /\ img_visibility_pols = 1
    /\ img_coarse_chan_idxs \in IdxLists(MaxCoarseChans)
    /\ img_timestep_idxs \in IdxLists(MaxTimesteps)
    /\ num_img_coarse_chans * num_img_timesteps \in 1..MaxMaskedHdus
    /\ masks_given = TRUE
    /\ img_failing = {}
    /\ img_read_log = [c \in 0..(num_img_coarse_chans - 1) |-> <<>>]
    /\ img_pc = "call"
    /\ job_queue = <<>>
    /\ producer = [p \in Producers |-> [pc |-> "unspawned", cc |-> 0, ts |-> 0, q |-> 0]]
    /\ pol_img_queues = [q \in Components |-> <<>>]
    /\ img_rx_error = <<>>
    /\ consumer_pc = [q \in Components |-> "unspawned"]
    /\ img_collector_pc = "unspawned"
    /\ img_progress_pc = "unspawned"
    /\ baseline_imgsets = init_baseline_imgsets
    /\ imgset_writers =
          [key \in DOMAIN baseline_imgsets |->
              [i \in 1..(img_height * HorizontalStride) |-> <<>>]]
    /\ \E patterns \in MaskPatterns :
          baseline_flagmasks =
              [b \in 0..(metafits_num_baselines - 1) |->
                  CallerMask(IF b = 0 THEN patterns[1] ELSE patterns[2])]
    /\ mwalib_timestep_range = [start |-> 0, end |-> 0]
    /\ mwalib_coarse_chan_range = [start |-> 0, end |-> 0]
    /\ mwalib_baseline_indices = <<>>
    /\ failing = {}
    /\ jones_array = <<>>
    /\ flag_array = <<>>
    /\ rx_error = <<>>
    /\ tx_error_dropped = FALSE
    /\ main_pc = "off"
    /\ result = "none"
    /\ worker_ts = <<>>
    /\ hdu_buffer = <<>>
    /\ collector_pc = "off"
    /\ progress_pc = "off"
    /\ read_log = <<>>
    /\ jones_writer = <<>>
    /\ NoCorrectionOrMain

SpecImgMasks == ImgMasksInit /\ [][ImgNext]_vars

\* Cell i of a mask lies in the extent of an HDU whose read has failed.
InFailedExtent(i) ==
    \E hdu \in img_failing, fc \in FineChans :
        (num_corr_fine_chans_per_coarse * hdu[1] + fc) * img_width + hdu[2] + 1 = i

\* C36: no step of context_to_baseline_imgsets clears a cell of a mask
\* that is set, and no step changes a cell that lies outside the extents
\* of the HDUs whose read has failed; so what the caller had flagged is
\* still flagged when the call returns.
C36_MasksOnlyGrow ==
    [][\A b \in DOMAIN baseline_flagmasks :
         \A i \in DOMAIN baseline_flagmasks[b] :
             /\ baseline_flagmasks[b][i] => baseline_flagmasks'[b][i]
             /\ ~InFailedExtent(i) =>
                   baseline_flagmasks'[b][i] = baseline_flagmasks[b][i]]_vars

\* The call has returned; a read has failed, and outside its extent the
\* first mask has a cell that the caller had flagged and another mask has
\* one that nobody has flagged.
C36_Witness ==
    /\ img_pc = "returned"
    /\ img_failing # {}
    /\ \E i, j \in DOMAIN baseline_flagmasks[0] :
          /\ ~InFailedExtent(i) /\ baseline_flagmasks[0][i]
          /\ ~InFailedExtent(j) /\ ~baseline_flagmasks[1][j]
    /\ \E i \in DOMAIN baseline_flagmasks[0] :
          InFailedExtent(i) /\ baseline_flagmasks[1][i]

\* ---------------------------------------------------------------------
\* The two builders on the same observation and selection
\* ---------------------------------------------------------------------
\* The HDUs of the selection both builders are called with
MaxIngestHdus == 2

\* Both builders are about to be called with the same context, of
\* num_visibility_pols polarisations: context_to_jones_array with two
\* ranges and all baselines, context_to_baseline_imgsets with the indices
\* of the two ranges and a mask per baseline.
IngestInit ==
    /\ mwalib_timestep_range \in Ranges(MaxTimesteps)
    /\ mwalib_coarse_chan_range \in Ranges(MaxCoarseChans)
    /\ RangeLen(mwalib_timestep_range) * RangeLen(mwalib_coarse_chan_range)
          \in 1..MaxIngestHdus
    /\ mwalib_baseline_indices = BaselineRun(0, metafits_num_baselines)
    /\ failing = {}
    /\ jones_array = Array3(Shape(mwalib_timestep_range, mwalib_coarse_chan_range,
                                  mwalib_baseline_indices), ZeroJones)
    /\ flag_array = Array3(Shape(mwalib_timestep_range, mwalib_coarse_chan_range,
                                 mwalib_baseline_indices), FALSE)
    /\ rx_error = <<>>
    /\ tx_error_dropped = FALSE
    /\ main_pc = "call"
    /\ result = "none"
    /\ worker_ts = [k \in Workers |-> 0]
    /\ hdu_buffer = [k \in Workers |-> <<>>]
    /\ collector_pc = "unspawned"
    /\ progress_pc = "unspawned"
    /\ read_log = [h \in (0..(MaxTimesteps - 1)) \X (0..(MaxCoarseChans - 1)) |-> 0]
    /\ jones_writer = [cell \in DOMAIN jones_array |-> <<>>]
    /\ img_visibility_pols = num_visibility_pols
    /\ img_coarse_chan_idxs = BaselineRun(mwalib_coarse_chan_range.start,
                                          mwalib_coarse_chan_range.end)
    /\ img_timestep_idxs = BaselineRun(mwalib_timestep_range.start,
                                       mwalib_timestep_range.end)
    /\ masks_given = TRUE
    /\ img_failing = {}
    /\ img_read_log = [c \in 0..(num_img_coarse_chans - 1) |-> <<>>]
    /\ img_pc = "call"
    /\ job_queue = <<>>
    /\ producer = [p \in Producers |-> [pc |-> "unspawned", cc |-> 0, ts |-> 0, q |-> 0]]
    /\ pol_img_queues = [q \in Components |-> <<>>]
    /\ img_rx_error = <<>>
    /\ consumer_pc = [q \in Components |-> "unspawned"]
    /\ img_collector_pc = "unspawned"
    /\ img_progress_pc = "unspawned"
    /\ baseline_imgsets = init_baseline_imgsets
    /\ imgset_writers =
          [key \in DOMAIN baseline_imgsets |->
              [i \in 1..(img_height * HorizontalStride) |-> <<>>]]
    /\ baseline_flagmasks =
          [b \in 0..(metafits_num_baselines - 1) |->
              [i \in 1..(img_height * HorizontalStride) |-> FALSE]]
    /\ jones_orig = <<>>
    /\ antennas = <<>>
    /\ corr_pc = "off"
    /\ corr_done = {}
    /\ corr_calls = [cable |-> 0, geom |-> 0]
    /\ cable_delays_applied = FALSE
    /\ geometric_delays_applied = "No"
    /\ no_cable_delay = FALSE
    /\ no_geometric_delay = FALSE
    /\ prep_ctx = [correct_cable_lengths |-> FALSE, correct_geometry |-> FALSE]
    /\ NoFlagFiles
    /\ NoChunks

\* The HDU of the provider that the img indices of a reader stand for
ProviderHdu(hdu) ==
    <<img_timestep_idxs[hdu[2] + 1], img_coarse_chan_idxs[hdu[1] + 1]>>

\* The provider serves both calls from the same files: the read of an HDU
\* fails in context_to_baseline_imgsets exactly when it has failed in
\* context_to_jones_array.
SameFailures ==
    \A hdu \in ImgHdus :
        Occurrences(img_read_log[hdu[1]], hdu[2]) > 0 =>
            (hdu \in img_failing <=> ProviderHdu(hdu) \in failing)

\* A buffer or a report waits for its receiver.
Pending ==
    \/ \E q \in Components : pol_img_queues[q] # <<>>
    \/ img_rx_error # <<>>

\* The consumers of the components below pol_idx have nothing to do.
FirstInTurn(pol_idx) ==
    \A q \in Components :
        q < pol_idx => (pol_img_queues[q] = <<>> /\ consumer_pc[q] # "recv")

\* context_to_jones_array runs and returns, then
\* context_to_baseline_imgsets runs, its threads scheduled in one of the
\* orders the OS may choose: a receiver that has something to receive runs
\* before any reader, and the consumers run in the order of their
\* components. What the threads do in every other order is the subject of
\* SpecImg.
IngestNext ==
    \/ Next
    \/ Returned /\ ImgEnterScope
    \/ \E p \in Producers : Returned /\ ~Pending /\ ProducerRecv(p)
    \/ \E p \in Producers, readable \in BOOLEAN :
          Returned /\ ~Pending /\ ProducerRead(p, readable) /\ SameFailures'
    \/ \E p \in Producers : Returned /\ ~Pending /\ ProducerSend(p)
    \/ \E pol_idx \in Components :
          /\ Returned
          /\ \A q \in Components : q < pol_idx => pol_img_queues[q] = <<>>
          /\ ConsumerRecv(pol_idx)
    \/ \E pol_idx \in Components :
          Returned /\ FirstInTurn(pol_idx) /\ ConsumerExit(pol_idx)
    \/ Returned /\ ImgCollectorRecv
    \/ Returned /\ (\A q \in Components : consumer_pc[q] = "done") /\ ImgCollectorExit
    \/ Returned /\ ImgProgressJoin
    \/ Returned /\ ImgScopeJoin

SpecIngest == IngestInit /\ [][IngestNext]_vars

\* C35: when both calls have returned, for every HDU that was read, every
\* baseline b, every fine channel row c of the HDU, its column t and every
\* component p of the 2 * num_visibility_pols, buffer p of imgset b holds at
\* (c, t) float p of the Jones cell (t, c, b), the real part of product
\* p div 2 for even p and its imaginary part for odd p; and the mask of
\* every baseline b is set at (c, t) exactly where the flag array is set at
\* (t, c, b).
C35_SameIngest ==
    (Returned /\ img_pc = "returned") =>
        /\ \A hdu \in ImgHdus \ img_failing :
              \A b \in 0..(metafits_num_baselines - 1), fc \in FineChans,
                 p \in 0..(ImageCount - 1) :
                  LET c == num_corr_fine_chans_per_coarse * hdu[1] + fc
                      t == hdu[2]
                  IN  ImgCell(b, p, c, t) = jones_array[<<t, c, b>>][p + 1]
        /\ \A b \in 0..(metafits_num_baselines - 1), c \in 0..(img_height - 1),
              t \in 0..(img_width - 1) :
                baseline_flagmasks[b][c * img_width + t + 1] = flag_array[<<t, c, b>>]

\* Both calls have returned for a selection of two HDUs, of which one was
\* read and the other one failed; the last component of the last baseline
\* and fine channel of the HDU that was read is not zero.
C35_Witness ==
    /\ Returned
    /\ img_pc = "returned"
    /\ \E hdu \in ImgHdus \ img_failing :
          /\ hdu[1] + hdu[2] > 0
          /\ ImgCell(metafits_num_baselines - 1, ImageCount - 1,
                     num_corr_fine_chans_per_coarse * hdu[1]
                         + num_corr_fine_chans_per_coarse - 1, hdu[2]) # 0
    /\ img_failing # {}
    /\ \E cell \in DOMAIN flag_array : flag_array[cell]

\* ---------------------------------------------------------------------
\* Sends and the life of the receivers
\* ---------------------------------------------------------------------

\* C33: in both builders, a step that puts a report on the error channel
\* or a buffer on the queue of a component finds the thread that receives
\* from it not yet gone; the collector of either builder and every
\* consumer leave only when every sender is dropped and nothing is left to
\* receive, and a call that returns returns Ok with every thread joined.
C33_NoSendAfterReceiverGone ==
    /\ [][/\ Len(rx_error') > Len(rx_error) =>
                (collector_pc # "done" /\ ~tx_error_dropped)
          /\ Len(img_rx_error') > Len(img_rx_error) =>
                img_collector_pc # "done"
          /\ \A q \in DOMAIN pol_img_queues :
                Len(pol_img_queues'[q]) > Len(pol_img_queues[q]) =>
                    consumer_pc[q] # "done"]_vars
    /\ [](/\ collector_pc = "done" =>
                (tx_error_dropped /\ rx_error = <<>>
                    /\ \A k \in Workers : WorkerDone(k))
          /\ img_collector_pc = "done" => (ProducersDone /\ img_rx_error = <<>>)
          /\ \A q \in DOMAIN consumer_pc :
                consumer_pc[q] = "done" =>
                    (ProducersDone /\ pol_img_queues[q] = <<>>)
          /\ main_pc = "returned" => (result = "Ok" /\ collector_pc = "done")
          /\ img_pc = "returned" =>
                (img_collector_pc = "done"
                    /\ \A q \in DOMAIN consumer_pc : consumer_pc[q] = "done"))

\* The last task of context_to_jones_array has just reported a failed
\* read, after the collector has taken an earlier report.
C33_Witness ==
    /\ main_pc = "for_each"
    /\ \A k \in Workers : WorkerDone(k)
    /\ collector_pc = "recv"
    /\ rx_error # <<>>
    /\ Cardinality(failing) > Len(rx_error)

\* A reader of context_to_baseline_imgsets has reported a failed read and
\* delivered a buffer, and no consumer has left.
C33_WitnessImgsets ==
    /\ img_pc = "scope"
    /\ img_rx_error # <<>>
    /\ \E q \in DOMAIN pol_img_queues : pol_img_queues[q] # <<>>
    /\ img_collector_pc = "recv"
    /\ \A q \in DOMAIN consumer_pc : consumer_pc[q] = "recv"

\* ---------------------------------------------------------------------
\* The chunks of the command-line pipeline
\* ---------------------------------------------------------------------

\* The timesteps of the chunks that have been processed: those of which
\* an HDU has been read
ChunkedTimesteps == {h[1] : h \in {g \in DOMAIN read_log : read_log[g] > 0}}

\* C37: a step that processes a chunk takes the range that begins where
\* the chunks before it end (the first one at the start of the selection),
\* so that the chunks come in ascending order, contiguous and disjoint; the
\* chunk has between 1 and chunk_size timesteps, lies within the selection
\* and has exactly chunk_size timesteps unless it ends the selection; a run
\* without a chunk size processes the whole selection as its only chunk;
\* and when the loop is left the chunks that were processed make up the
\* selection, every timestep of it in one chunk.
C37_ChunksPartitionSelection ==
    /\ [][read_log' # read_log =>
             LET range == mwalib_timestep_range'
                 full == full_sel_timestep_range
             IN  /\ ChunkedTimesteps = full.start..(range.start - 1)
                 /\ RangeLen(range) \in 1..ChunkSize
                 /\ range.end <= full.end
                 /\ range.end < full.end => RangeLen(range) = ChunkSize
                 /\ ~num_timesteps_per_chunk.is_some => range = full
                 /\ ChunkedTimesteps' = full.start..(range.end - 1)
                 /\ \A h \in DOMAIN read_log :
                       read_log'[h] = IF h[1] \in range.start..(range.end - 1)
                                      THEN 1 ELSE read_log[h]]_vars
    /\ [](chunk_pc = "done" =>
            /\ ChunkedTimesteps = full_sel_timestep_range.start
                                      ..(full_sel_timestep_range.end - 1)
            /\ \A h \in DOMAIN read_log : read_log[h] <= 1)

\* The loop is left after more than one chunk, and the selection does not
\* begin at the first timestep of the observation.
C37_Witness ==
    /\ chunk_pc = "done"
    /\ num_timesteps_per_chunk.is_some
    /\ ChunkSize < RangeLen(full_sel_timestep_range)
    /\ mwalib_timestep_range.start > full_sel_timestep_range.start
    /\ mwalib_timestep_range.end = full_sel_timestep_range.end

\* The loop is left after the only chunk of a run without a chunk size.
C37_WitnessOneChunk ==
    /\ chunk_pc = "done"
    /\ ~num_timesteps_per_chunk.is_some
    /\ RangeLen(full_sel_timestep_range) > 1
    /\ mwalib_timestep_range = full_sel_timestep_range

\* C38: at every moment of a run with --flag-template in which a chunk
\* size is in effect, no HDU has been read, nothing has been given to a
\* writer and no output exists, neither a writer's nor a flag file; the run
\* is at the validation of the chunk size or has panicked, and the step
\* it takes from the validation is the panic.
C38_ChunkedFlagFilesRejected ==
    /\ []((num_timesteps_per_chunk.is_some /\ flag_template) =>
            /\ chunk_pc \in {"validate", "panicked"}
            /\ writers = {}
            /\ written_jones = <<>> /\ written_flags = <<>>
            /\ \A h \in DOMAIN read_log : read_log[h] = 0)
    /\ [][(chunk_pc = "validate" /\ num_timesteps_per_chunk.is_some
             /\ flag_template) => chunk_pc' = "panicked"]_vars

\* A run with --time-chunk, --flag-template and a uvfits output has
\* panicked at the validation.
C38_Witness ==
    /\ chunk_pc = "panicked"
    /\ num_timesteps_per_chunk.is_some
    /\ time_chunk.is_some
    /\ flag_template
    /\ uvfits_out

\* A run with --max-memory too small for the selection, and with
\* --flag-template, has panicked at the validation.
C38_WitnessMaxMemory ==
    /\ chunk_pc = "panicked"
    /\ num_timesteps_per_chunk.is_some
    /\ max_memory.is_some
    /\ flag_template

====
